---- MODULE Spec2Model ----
(***************************************************************************)
(* A model of ansipixels-c: the byte buffer (buf.c), the robust write      *)
(* path (write_all), the raw-terminal helper (raw.c) and the terminal      *)
(* session core (ansipixels.c).                                            *)
(*                                                                         *)
(* Memory is modelled explicitly: a heap of blocks, pointers into blocks,  *)
(* and buffers {data, size, cap} holding such pointers, so that a          *)
(* reallocation that moves the storage, a release, and a slice that        *)
(* borrows storage are all things the checks can see.                      *)
(*                                                                         *)
(* Allocation is taken to succeed in the buffer library: the code has no   *)
(* path for a failed realloc/calloc there (it would store NULL and         *)
(* crash on the next copy).                                                *)
(***************************************************************************)
EXTENDS Integers, Sequences, FiniteSets, TLC

VARIABLES
    heap,       \* the allocator's blocks and an undefined-behaviour flag
    b,          \* the two buffers of the buffer scenarios: b["dest"], b["src"]
    sl,         \* a slice (non-owning view) taken of b["dest"]
    call,       \* the last buffer operation called: its arguments, its result
                \* and the buffers as they were when it was called
    qs,         \* the byte string given to the quoting functions
    wr,         \* a call of write_all: its arguments, its locals, its position,
                \* and the bytes that reached the descriptor
    sess,       \* the process and its terminal: global_ap, the allocated
                \* struct ap's, original_termios, the registered exit routines,
                \* the SIGWINCH disposition, and the terminal's own state
    apcall,     \* the last session operation called, its result, and for
                \* ap_open the state it was called in
    aphist,     \* what has happened to the session so far: the terminal
                \* configuration in effect when ap_open captured it, whether
                \* ap_clear_screen has been called, and the strings of the
                \* buffered primitives called since ap_start
    rec,        \* the recorder: the locals of its main, its child, the
                \* pseudo-terminal, standard input and output, the output file
    flt         \* the filter: its mode and build, the input stream, the two
                \* working buffers, the frame counter, standard output

bufVars == <<heap, b, sl, call>>

wrVars == <<wr>>

apVars == <<sess, apcall, aphist>>

vars == <<bufVars, qs, wrVars, apVars, rec, flt>>

-----------------------------------------------------------------------------
(* Bounds of the model *)

\* largest capacity a buffer is grown to
MaxCap == 4
\* longest byte string appended in one call
MaxLit == 2
\* number of heap blocks that can be live at once
MaxBlocks == 3

\* bytes of the appended literals
InBytes == {65, 66}
\* bytes a read delivers
RdBytes == {65}

Bufs == {"dest", "src"}

\* a cell of allocated storage whose value is indeterminate (fresh from realloc)
Undef == -1

\* growing x to hold need bytes stays within the model's capacity bound
GrowthOk(x, need) == need <= x.cap \/ (IF need > 2 * x.cap THEN need ELSE 2 * x.cap) <= MaxCap

\* whether realloc moves the block is a choice only when the call grows the buffer
Moves(x, need) == IF need > x.cap THEN BOOLEAN ELSE {FALSE}

SeqsUpTo(S, n) == UNION {[1..k -> S] : k \in 0..n}

-----------------------------------------------------------------------------
(* Pointers and the heap *)

NULL == [blk |-> 0, off |-> 0]

\* the bytes f[1], f[2], ... as a sequence held by value
Bytes(f) == f \o <<>>

PtrAdd(p, k) == [p EXCEPT !.off = @ + k]

\* a source of bytes: static storage (a literal, a stack variable) or heap storage
LitSrc(bytes) == [lit |-> TRUE, bytes |-> bytes, ptr |-> NULL]
HeapSrc(p) == [lit |-> FALSE, bytes |-> <<>>, ptr |-> p]

EmptyHeap == [blk |-> [i \in 1..MaxBlocks |-> [live |-> FALSE, mem |-> <<>>]], ub |-> FALSE]

LiveBlocks(h) == {i \in 1..MaxBlocks : h.blk[i].live}

ValidRange(h, p, n) ==
    /\ p.blk \in 1..MaxBlocks
    /\ h.blk[p.blk].live
    /\ p.off >= 0
    /\ p.off + n <= Len(h.blk[p.blk].mem)

\* the byte at p[k]; reading outside live storage yields an indeterminate value
Peek(h, p, k) ==
    IF ValidRange(h, PtrAdd(p, k), 1) THEN h.blk[p.blk].mem[p.off + k + 1] ELSE Undef

Load(h, src, n) ==
    IF src.lit THEN Bytes([i \in 1..n |-> IF i <= Len(src.bytes) THEN src.bytes[i] ELSE Undef])
    ELSE Bytes([i \in 1..n |-> Peek(h, src.ptr, i - 1)])

\* write bytes at p; a write outside live storage is undefined behaviour
Store(h, p, bytes) ==
    IF Len(bytes) = 0 THEN h
    ELSE IF ValidRange(h, p, Len(bytes))
    THEN [h EXCEPT !.blk[p.blk].mem =
            Bytes([i \in 1..Len(@) |-> IF i > p.off /\ i <= p.off + Len(bytes)
                                       THEN bytes[i - p.off] ELSE @[i]])]
    ELSE [h EXCEPT !.ub = TRUE]

\* the block a new allocation gets (never one that is live)
FreshBlock(h) == CHOOSE i \in 1..MaxBlocks : ~h.blk[i].live /\ \A j \in 1..(i-1) : h.blk[j].live

CanAlloc(h) == \E i \in 1..MaxBlocks : ~h.blk[i].live

calloc(h, n) ==
    LET i == FreshBlock(h)
    IN [heap |-> [h EXCEPT !.blk[i] = [live |-> TRUE, mem |-> Bytes([k \in 1..n |-> 0])]],
        ptr |-> [blk |-> i, off |-> 0]]

\* free(p): NULL is a no-op; anything but the start of a live block is undefined behaviour
free(h, p) ==
    IF p = NULL THEN h
    ELSE IF p.blk \in 1..MaxBlocks /\ h.blk[p.blk].live /\ p.off = 0
    THEN [h EXCEPT !.blk[p.blk] = [live |-> FALSE, mem |-> <<>>]]
    ELSE [h EXCEPT !.ub = TRUE]

\* realloc(p, n) for n no smaller than the block: the old bytes are kept, the new
\* tail is indeterminate; the block may stay in place or move (mv), and
\* realloc(NULL, n) allocates.  p must be NULL or the start of a live block.
realloc(h, p, n, mv) ==
    IF p = NULL
    THEN LET i == FreshBlock(h)
         IN [heap |-> [h EXCEPT !.blk[i] = [live |-> TRUE, mem |-> Bytes([k \in 1..n |-> Undef])]],
             ptr |-> [blk |-> i, off |-> 0]]
    ELSE IF ~(p.blk \in 1..MaxBlocks /\ h.blk[p.blk].live /\ p.off = 0)
    THEN [heap |-> [h EXCEPT !.ub = TRUE], ptr |-> p]
    ELSE LET old == h.blk[p.blk].mem
             new == Bytes([k \in 1..n |-> IF k <= Len(old) THEN old[k] ELSE Undef])
         IN IF mv /\ CanAlloc(h)
            THEN LET i == FreshBlock(h)
                 IN [heap |-> [h EXCEPT !.blk[i] = [live |-> TRUE, mem |-> new],
                                        !.blk[p.blk] = [live |-> FALSE, mem |-> <<>>]],
                     ptr |-> [blk |-> i, off |-> 0]]
            ELSE [heap |-> [h EXCEPT !.blk[p.blk].mem = new], ptr |-> p]

-----------------------------------------------------------------------------
(* buf.c *)

ZeroBuf == [data |-> NULL, size |-> 0, cap |-> 0]

\* the first size bytes of a buffer
Content(h, x) == Bytes([i \in 1..x.size |-> Peek(h, x.data, i - 1)])

max(x, y) == IF x > y THEN x ELSE y

\* calloc(1, 0) may return NULL or a pointer to a block of no bytes (nonnull)
new_buf(h, size, nonnull) ==
    IF size = 0 /\ ~nonnull
    THEN [heap |-> h, buf |-> [data |-> NULL, size |-> 0, cap |-> 0]]
    ELSE LET a == calloc(h, size)
         IN [heap |-> a.heap, buf |-> [data |-> a.ptr, size |-> 0, cap |-> size]]

\* free_buf without the test for a capacity of zero
free_buf_nocheck(h, isnull, x) ==
    IF isnull THEN [heap |-> h, buf |-> x]
    ELSE [heap |-> free(h, x.data), buf |-> [data |-> NULL, size |-> 0, cap |-> 0]]

\* free_buf(bp): isnull says that bp is the NULL pointer, x is *bp otherwise
free_buf(h, isnull, x) ==
    IF isnull THEN [heap |-> h, buf |-> x]
    ELSE IF x.cap = 0 THEN [heap |-> h, buf |-> x]
    ELSE [heap |-> free(h, x.data), buf |-> [data |-> NULL, size |-> 0, cap |-> 0]]

\* ensure_cap that keeps the old data pointer after realloc
ensure_cap_stale(h, x, new_cap, mv) ==
    IF new_cap <= x.cap THEN [heap |-> h, buf |-> x]
    ELSE LET nc == max(new_cap, x.cap * 2)
             r == realloc(h, x.data, nc, mv)
         IN [heap |-> r.heap, buf |-> [x EXCEPT !.cap = nc]]

\* ensure_cap that grows to the requested capacity only, without doubling
ensure_cap_exact(h, x, new_cap, mv) ==
    IF new_cap <= x.cap THEN [heap |-> h, buf |-> x]
    ELSE LET r == realloc(h, x.data, new_cap, mv)
         IN [heap |-> r.heap, buf |-> [x EXCEPT !.data = r.ptr, !.cap = new_cap]]

ensure_cap(h, x, new_cap, mv) ==
    IF new_cap <= x.cap THEN [heap |-> h, buf |-> x]
    ELSE LET nc == max(new_cap, x.cap * 2)
             r == realloc(h, x.data, nc, mv)
         IN [heap |-> r.heap, buf |-> [x EXCEPT !.data = r.ptr, !.cap = nc]]

append_data(h, x, src, size, mv) ==
    LET e == ensure_cap(h, x, x.size + size, mv)
        h2 == Store(e.heap, PtrAdd(e.buf.data, e.buf.size), Load(e.heap, src, size))
    IN [heap |-> h2, buf |-> [e.buf EXCEPT !.size = @ + size]]

append_buf(h, x, src, mv) == append_data(h, x, HeapSrc(src.data), src.size, mv)

append_str(h, x, str, mv) == append_data(h, x, LitSrc(str), Len(str), mv)

append_byte(h, x, byte, mv) == append_data(h, x, LitSrc(<<byte>>), 1, mv)

\* consume that shrinks size without moving the remaining bytes to the front
consume_noshift(h, x, n) == [heap |-> h, buf |-> [x EXCEPT !.size = @ - n]]

consume(h, x, n) ==
    IF n = x.size THEN [heap |-> h, buf |-> [x EXCEPT !.size = 0]]
    ELSE [heap |-> Store(h, x.data, Load(h, HeapSrc(PtrAdd(x.data, n)), x.size - n)),
          buf |-> [x EXCEPT !.size = @ - n]]

\* transfer that appends to dest and leaves src as it was
transfer_noconsume(h, dest, src, n, mv) ==
    LET a == append_data(h, dest, HeapSrc(src.data), n, mv)
    IN [heap |-> a.heap, dest |-> a.buf, src |-> src]

\* both buffers after append_data(dest, src->data, n); consume(src, n)
transfer(h, dest, src, n, mv) ==
    LET a == append_data(h, dest, HeapSrc(src.data), n, mv)
        c == consume(a.heap, src, n)
    IN [heap |-> c.heap, dest |-> a.buf, src |-> c.buf]

slice_buf(x, start, end) == [data |-> PtrAdd(x.data, start), size |-> end - start, cap |-> 0]

\* what read(fd, p, count) can do: fail, or deliver up to count bytes (0 at end of stream)
sys_read(count) ==
    {[ret |-> -1, bytes |-> <<>>]} \cup {[ret |-> Len(x), bytes |-> x] : x \in SeqsUpTo(RdBytes, count)}

read_buf(h, x, rd) ==
    [heap |-> Store(h, PtrAdd(x.data, x.size), rd.bytes),
     buf |-> IF rd.ret > 0 THEN [x EXCEPT !.size = @ + rd.ret] ELSE x,
     ret |-> rd.ret]

\* ensure_cap(b, size + min), the first half of read_at_least: its read is of
\* the capacity left after the growth
read_at_least_cap(h, x, min, mv) == ensure_cap(h, x, x.size + min, mv)

read_at_least(h, x, min, mv, rd) ==
    LET e == read_at_least_cap(h, x, min, mv)
    IN read_buf(e.heap, e.buf, rd)

\* read_n that reads without ensuring the capacity first
read_n_nogrow(h, x, n, mv, rd) ==
    [heap |-> Store(h, PtrAdd(x.data, x.size), rd.bytes),
     buf |-> IF rd.ret > 0 THEN [x EXCEPT !.size = @ + rd.ret] ELSE x,
     ret |-> rd.ret]

read_n(h, x, n, mv, rd) ==
    LET e == ensure_cap(h, x, x.size + n, mv)
    IN [heap |-> Store(e.heap, PtrAdd(e.buf.data, e.buf.size), rd.bytes),
        buf |-> IF rd.ret > 0 THEN [e.buf EXCEPT !.size = @ + rd.ret] ELSE e.buf,
        ret |-> rd.ret]

-----------------------------------------------------------------------------
(* buf.c: debug quoting *)

\* The statements of the quoting functions are sequenced as
\*   Only({ rest(r) : r \in {first} })
\* which gives rest the state that first leaves, by value.
Only(S) == CHOOSE out \in S : TRUE

\* the value of a char that holds byte v, in a build whose char is signed or
\* unsigned (the C implementation's choice)
CharOf(v, signed) == IF signed /\ v >= 128 THEN v - 256 ELSE v

\* the byte stored for the char value c
ByteOf(c) == c % 256

\* to_hex_digit with lower-case letters
to_hex_digit_lower(c) == IF c < 10 THEN 48 + c ELSE 97 + (c - 10)

to_hex_digit(c) == IF c < 10 THEN 48 + c ELSE 65 + (c - 10)

\* the body of quote_buf's loop for the char c; (c >> 4) & 0xF and c & 0xF are
\* the two's complement nibbles of c, also for a negative c
quote_char(h, x, c, mv) ==
    CASE c = 10 -> append_str(h, x, <<92, 110>>, mv)
      [] c = 13 -> append_str(h, x, <<92, 114>>, mv)
      [] c = 9 -> append_str(h, x, <<92, 116>>, mv)
      [] c = 92 -> append_str(h, x, <<92, 92>>, mv)
      [] c = 34 -> append_str(h, x, <<92, 34>>, mv)
      [] OTHER ->
            IF c < 32 \/ c >= 127
            THEN Only({Only({append_byte(r2.heap, r2.buf, ByteOf(to_hex_digit(c % 16)), mv) :
                    r2 \in {append_byte(r1.heap, r1.buf, ByteOf(to_hex_digit((c \div 16) % 16)), mv)}}) :
                    r1 \in {append_str(h, x, <<92, 120>>, mv)}})
            ELSE append_byte(h, x, ByteOf(c), mv)

RECURSIVE quote_loop(_, _, _, _, _, _)
\* quote_buf's loop from index i (1-based) on
quote_loop(h, x, s, signed, mv, i) ==
    IF i > Len(s)
    THEN [heap |-> h, buf |-> x]
    ELSE Only({quote_loop(r.heap, r.buf, s, signed, mv, i + 1) :
                  r \in {quote_char(h, x, CharOf(s[i], signed), mv)}})

quote_buf(h, x, s, signed, mv) ==
    Only({Only({Only({append_byte(r2.heap, r2.buf, 0, mv) :
        r2 \in {append_byte(r1.heap, r1.buf, 34, mv)}}) :
        r1 \in {quote_loop(r0.heap, r0.buf, s, signed, mv, 1)}}) :
        r0 \in {append_byte(h, x, 34, mv)}})

debug_quote(h, s, signed, mv) ==
    Only({quote_buf(n.heap, n.buf, s, signed, mv) : n \in {new_buf(h, Len(s) + 4, FALSE)}})

debug_data(h, shared_buf, s, signed, mv) ==
    quote_buf(h, [shared_buf EXCEPT !.size = 0], s, signed, mv)

-----------------------------------------------------------------------------
(* buf.c: write_all *)

EINTR == "EINTR"
EIO == "EIO"

\* no call of write_all made yet
NoWrite ==
    [pc |-> "idle", buf |-> <<>>, len |-> 0, total |-> 0, ret |-> 0, fd |-> <<>>,
     writes |-> 0, off |-> 0, cnt |-> 0, n |-> 0, errno |-> "none"]

\* write_all up to its loop: the test of len and the initialisation of total
write_all_enter(w, buf, len) ==
    IF len <= 0
    THEN [w EXCEPT !.pc = "done", !.buf = buf, !.len = len, !.ret = len]
    ELSE [w EXCEPT !.pc = "loop", !.buf = buf, !.len = len, !.total = 0]

\* write(fd, buf + off, cnt) that returns n: the descriptor takes the first n of
\* the cnt bytes at buf + off when n > 0
sys_write(w, off, cnt, n, errno) ==
    [w EXCEPT !.fd = IF n > 0 THEN @ \o SubSeq(w.buf, off + 1, off + (IF n < cnt THEN n ELSE cnt)) ELSE @,
              !.writes = @ + 1, !.off = off, !.cnt = cnt, !.n = n, !.errno = errno]

\* one turn of write_all's loop that gives up on EINTR as on any other error
write_all_noretry(w, n, errno) ==
    LET s == sys_write(w, w.total, w.len - w.total, n, errno)
    IN IF n < 0
       THEN [s EXCEPT !.pc = "done", !.ret = IF s.total # 0 THEN s.total ELSE -1]
       ELSE LET total == s.total + n
            IN IF total < s.len
               THEN [s EXCEPT !.total = total]
               ELSE [s EXCEPT !.total = total, !.pc = "done", !.ret = total]

\* one turn of write_all's loop, entered with total < len: the write, the test
\* of its result n (and errno), and the loop test that follows
write_all(w, n, errno) ==
    LET s == sys_write(w, w.total, w.len - w.total, n, errno)
    IN IF n < 0
       THEN IF errno = EINTR
            THEN s
            ELSE [s EXCEPT !.pc = "done", !.ret = IF s.total # 0 THEN s.total ELSE -1]
       ELSE LET total == s.total + n
            IN IF total < s.len
               THEN [s EXCEPT !.total = total]
               ELSE [s EXCEPT !.total = total, !.pc = "done", !.ret = total]

-----------------------------------------------------------------------------
(* raw.c and ansipixels.c *)

STDOUT_FILENO == 1

\* the handle value NULL of ap_t
NoAp == 0

\* the two flags of a struct termios that raw mode is about
TermiosSet == [icanon : BOOLEAN, echo : BOOLEAN]

\* a zero-initialized struct termios (original_termios is a static)
ZeroTermios == [icanon |-> FALSE, echo |-> FALSE]

\* a struct ap as calloc returns it
ZeroAp ==
    [live |-> TRUE, out |-> 0, h |-> 0, w |-> 0, xpixel |-> 0, ypixel |-> 0,
     buf |-> <<>>, first_clear |-> FALSE, resized |-> FALSE]

\* a struct ap that is not allocated
FreeAp == [ZeroAp EXCEPT !.live = FALSE]

\* time_init(), as ap_open calls it: the calls are counted
time_init(s) == [s EXCEPT !.time_inits = @ + 1]

\* atexit(fn)
atexit(s, fn) == [s EXCEPT !.atexits = Append(@, fn)]

\* term_raw(): tcgetattr into original_termios succeeds (tcok) or fails
term_raw(s, tcok) ==
    IF ~tcok
    THEN [s |-> s, ret |-> 1]
    ELSE [s |-> atexit([s EXCEPT !.original_termios = s.termios], "term_restore"), ret |-> 0]

\* term_restore without its tcsetattr
term_restore_lost(s) ==
    [s EXCEPT !.trace = Append(@, [ev |-> "tcsetattr", at |-> Len(s.tty_out)])]

\* term_restore(): tcsetattr(STDIN_FILENO, TCSAFLUSH, &original_termios)
term_restore(s) ==
    [s EXCEPT !.termios = s.original_termios,
              !.trace = Append(@, [ev |-> "tcsetattr", at |-> Len(s.tty_out)])]

\* ap_update_size(ap) for the handle a: the ioctl succeeds (iook) or fails
\* ap_update_size comparing the character cells only
ap_update_size_cells(s, a, iook) ==
    LET ws == s.winsize
        ap == s.aps[a]
    IN IF ~iook
       THEN s
       ELSE IF ws.ws_col = ap.w /\ ws.ws_row = ap.h
            THEN s
            ELSE [s EXCEPT !.aps[a] = [@ EXCEPT !.h = ws.ws_row, !.w = ws.ws_col,
                                                !.xpixel = ws.ws_xpixel, !.ypixel = ws.ws_ypixel,
                                                !.resized = TRUE]]

\* ap_update_size going on after a failed ioctl, with a struct winsize that the
\* failed call left zeroed
ap_update_size_unchecked(s, a, iook) ==
    LET ws == IF iook THEN s.winsize
              ELSE [ws_row |-> 0, ws_col |-> 0, ws_xpixel |-> 0, ws_ypixel |-> 0]
        ap == s.aps[a]
    IN IF ws.ws_col = ap.w /\ ws.ws_row = ap.h /\ ws.ws_xpixel = ap.xpixel /\ ws.ws_ypixel = ap.ypixel
       THEN s
       ELSE [s EXCEPT !.aps[a] = [@ EXCEPT !.h = ws.ws_row, !.w = ws.ws_col,
                                           !.xpixel = ws.ws_xpixel, !.ypixel = ws.ws_ypixel,
                                           !.resized = TRUE]]

ap_update_size(s, a, iook) ==
    LET ws == s.winsize
        ap == s.aps[a]
    IN IF ~iook
       THEN s
       ELSE IF ws.ws_col = ap.w /\ ws.ws_row = ap.h /\ ws.ws_xpixel = ap.xpixel /\ ws.ws_ypixel = ap.ypixel
            THEN s
            ELSE [s EXCEPT !.aps[a] = [@ EXCEPT !.h = ws.ws_row, !.w = ws.ws_col,
                                                !.xpixel = ws.ws_xpixel, !.ypixel = ws.ws_ypixel,
                                                !.resized = TRUE]]

handle_winch(s, iook) ==
    IF s.global_ap # NoAp THEN ap_update_size(s, s.global_ap, iook) ELSE s

\* the handle calloc returns: the first struct ap that is not allocated
FreshAp(s) == CHOOSE a \in DOMAIN s.aps : ~s.aps[a].live /\ \A c \in 1..(a - 1) : s.aps[c].live

\* ap_open without its test of global_ap
ap_open_noguard(s, callocok, tcok, iook) ==
    LET s1 == time_init(s)
        a == FreshAp(s1)
        s2 == [s1 EXCEPT !.aps[a] = [ZeroAp EXCEPT !.out = STDOUT_FILENO, !.first_clear = TRUE]]
        r == term_raw(s2, tcok)
        s3 == ap_update_size(r.s, a, iook)
    IN IF ~callocok
       THEN [s |-> s1, ret |-> NoAp]
       ELSE IF r.ret # 0
            THEN [s |-> r.s, ret |-> NoAp]
            ELSE [s |-> atexit([s3 EXCEPT !.sa_winch = TRUE, !.global_ap = a], "ap_cleanup"), ret |-> a]

\* ap_open(): calloc succeeds (callocok) or not, and so tcgetattr and the ioctl
ap_open(s, callocok, tcok, iook) ==
    IF s.global_ap # NoAp
    THEN [s |-> s, ret |-> NoAp]
    ELSE LET s1 == time_init(s)
             a == FreshAp(s1)
             s2 == [s1 EXCEPT !.aps[a] = [ZeroAp EXCEPT !.out = STDOUT_FILENO, !.first_clear = TRUE]]
             r == term_raw(s2, tcok)
             s3 == ap_update_size(r.s, a, iook)
         IN IF ~callocok
            THEN [s |-> s1, ret |-> NoAp]
            ELSE IF r.ret # 0
                 THEN [s |-> r.s, ret |-> NoAp]
                 ELSE [s |-> atexit([s3 EXCEPT !.sa_winch = TRUE, !.global_ap = a], "ap_cleanup"),
                       ret |-> a]

\* write_str(fd, str) and write_buf(fd, buf) on the terminal: the strings reach
\* the terminal whole and in order
write_str(s, strs) == [s EXCEPT !.tty_out = @ \o strs]

\* ap_str(ap, str): append_data to the session buffer
ap_str(s, a, str) == [s EXCEPT !.aps[a].buf = Append(@, str)]

ap_paste_off(s, a) == write_str(s, <<"ESC[?2004l">>)

\* ap_clear_screen that never leaves its first-clear mode
ap_clear_screen_first(s, a, immediate) ==
    LET what == IF s.aps[a].first_clear THEN "ESC[2JESC[H" ELSE "ESC[HESC[0J"
    IN IF immediate THEN write_str(s, <<what>>) ELSE ap_str(s, a, what)

ap_clear_screen(s, a, immediate) ==
    LET what == IF s.aps[a].first_clear THEN "ESC[2JESC[H" ELSE "ESC[HESC[0J"
        s1 == [s EXCEPT !.aps[a].first_clear = FALSE]
    IN IF immediate THEN write_str(s1, <<what>>) ELSE ap_str(s1, a, what)

\* ap_start without its reset of the buffer (as ap_start_sync)
ap_start_keep(s, a) == ap_str(s, a, "ESC[?2026h")

ap_start(s, a) == ap_str([s EXCEPT !.aps[a].buf = <<>>], a, "ESC[?2026h")

ap_end(s, a) ==
    LET s1 == ap_str(s, a, "ESC[?2026l")
        s2 == write_str(s1, s1.aps[a].buf)
    IN [s2 EXCEPT !.aps[a].buf = <<>>]

ap_show_cursor(s, a) == ap_str(s, a, "ESC[?25h")

ap_hide_cursor(s, a) == ap_str(s, a, "ESC[?25l")

ap_save_cursor(s, a) == ap_str(s, a, "ESC7")

ap_restore_cursor(s, a) == ap_str(s, a, "ESC8")

\* ap_flush: write_buf of the session buffer, then size = 0
ap_flush(s, a) ==
    LET s1 == write_str(s, s.aps[a].buf)
    IN [s1 EXCEPT !.aps[a].buf = <<>>]

\* the range of int
INT_MAX == 2147483647
INT_MIN == -INT_MAX - 1

\* n % 10 and n / 10 of C: the quotient truncates towards zero and the
\* remainder has the sign of n
CRem10(n) == IF n >= 0 THEN n % 10 ELSE -((10 - (n % 10)) % 10)
CDiv10(n) == (n - CRem10(n)) \div 10

\* '0' + d
DigitChar(d) == <<"0", "1", "2", "3", "4", "5", "6", "7", "8", "9">>[d + 1]

RECURSIVE itoa_loop(_, _, _)
\* the do-while loop of ap_itoa: the digit of n is stored in front of the
\* digits already in buf, then n /= 10, while n is not zero
itoa_loop(n, sign, buf) ==
    LET stored == DigitChar(sign * CRem10(n)) \o buf
        n1 == CDiv10(n)
    IN IF n1 # 0 THEN itoa_loop(n1, sign, stored) ELSE stored

\* ap_itoa that stores no minus sign
ap_itoa_unsigned(s, a, n) ==
    LET sign == IF n < 0 THEN -1 ELSE 1
    IN ap_str(s, a, itoa_loop(n, sign, ""))

ap_itoa(s, a, n) ==
    LET sign == IF n < 0 THEN -1 ELSE 1
        digits == itoa_loop(n, sign, "")
        buf == IF sign < 0 THEN "-" \o digits ELSE digits
    IN ap_str(s, a, buf)

\* ap_move_to(ap, x, y), for x and y below INT_MAX (x + 1 and y + 1 are int
\* additions)
ap_move_to(s, a, x, y) ==
    LET s1 == ap_str(s, a, "ESC[")
        s2 == ap_itoa(s1, a, y + 1)
        s3 == ap_str(s2, a, ";")
        s4 == ap_itoa(s3, a, x + 1)
    IN ap_str(s4, a, "H")

\* free_buf(&ap->buf): the struct must still be allocated
ap_free_buf(s, a) ==
    [s EXCEPT !.aps[a].buf = <<>>,
              !.ub = @ \/ ~s.aps[a].live,
              !.trace = Append(@, [ev |-> "free_buf", at |-> Len(s.tty_out)])]

\* free(ap)
ap_free(s, a) ==
    [s EXCEPT !.aps[a] = FreeAp,
              !.ub = @ \/ ~s.aps[a].live,
              !.trace = Append(@, [ev |-> "free", at |-> Len(s.tty_out)])]

\* global_ap = NULL
ap_clear_global(s) ==
    [s EXCEPT !.global_ap = NoAp,
              !.trace = Append(@, [ev |-> "global_ap", at |-> Len(s.tty_out)])]

\* ap_cleanup turning paste mode off before it ends the batch
ap_cleanup_paste_first(s) ==
    IF s.global_ap = NoAp
    THEN s
    ELSE LET a == s.global_ap
             s1 == ap_show_cursor(s, a)
             s2 == ap_paste_off(s1, a)
             s3 == ap_end(s2, a)
             s4 == term_restore(s3)
             s5 == ap_free_buf(s4, a)
             s6 == ap_free(s5, a)
         IN ap_clear_global(s6)

ap_cleanup(s) ==
    IF s.global_ap = NoAp
    THEN s
    ELSE LET a == s.global_ap
             s1 == ap_show_cursor(s, a)
             s2 == ap_end(s1, a)
             s3 == ap_paste_off(s2, a)
             s4 == term_restore(s3)
             s5 == ap_free_buf(s4, a)
             s6 == ap_free(s5, a)
         IN ap_clear_global(s6)

\* the routine registered under the name fn
ExitRoutine(s, fn) == IF fn = "ap_cleanup" THEN ap_cleanup(s) ELSE term_restore(s)

RECURSIVE RunAtexits(_, _)
\* exit(): the registered routines run in the reverse order of registration
RunAtexits(s, k) ==
    IF k = 0 THEN s ELSE RunAtexits(ExitRoutine(s, s.atexits[k]), k - 1)

\* calls of ap_open that get past its test of global_ap
MaxOpens == 2

\* the window sizes a terminal takes: two that differ in a pixel size only,
\* and one that differs in columns
WinSizes ==
    {[ws_row |-> 24, ws_col |-> 80, ws_xpixel |-> 640, ws_ypixel |-> 384],
     [ws_row |-> 24, ws_col |-> 80, ws_xpixel |-> 720, ws_ypixel |-> 384],
     [ws_row |-> 24, ws_col |-> 81, ws_xpixel |-> 648, ws_ypixel |-> 384]}

\* further window sizes: one more row, and taller pixels only
MoreWinSizes ==
    WinSizes \cup
    {[ws_row |-> 25, ws_col |-> 80, ws_xpixel |-> 640, ws_ypixel |-> 384],
     [ws_row |-> 24, ws_col |-> 80, ws_xpixel |-> 640, ws_ypixel |-> 408]}

\* a process that has not opened a session, and a terminal
NoSess ==
    [global_ap |-> NoAp,
     aps |-> [a \in 1..MaxOpens |-> FreeAp],
     original_termios |-> ZeroTermios,
     atexits |-> <<>>,
     sa_winch |-> FALSE,
     time_inits |-> 0,
     exited |-> FALSE,
     ub |-> FALSE,
     termios |-> [icanon |-> TRUE, echo |-> TRUE],
     winsize |-> [ws_row |-> 24, ws_col |-> 80, ws_xpixel |-> 640, ws_ypixel |-> 384],
     tty_out |-> <<>>,
     trace |-> <<>>]

NoApCall == [op |-> "none", ret |-> NoAp, pre |-> NoSess]

\* nothing has happened to the session yet
NoHist ==
    [opened |-> FALSE, captured |-> ZeroTermios, cleared |-> FALSE,
     started |-> FALSE, prims |-> <<>>]

-----------------------------------------------------------------------------
(* The recorder (demos/record): the loop of its main between standard input,
   the pseudo-terminal of its child, standard output and the output file *)

\* sizeof buf, the most bytes one read returns, and the bytes typed by the user
MaxChunk == 2
MaxTyped == 1
\* the filter's input is made of at most MaxItems sequences
MaxItems == 2

ENOMEM == "ENOMEM"

\* what the child of the Makefile's example writes on its terminal: the lines
\* "hi" and "bye"
ChildScript == << <<104, 105, 10>>, <<98, 121, 101, 10>> >>

\* a child that writes two bytes, then one
ShortScript == << <<104, 105>>, <<98>> >>
\* a child for the HUD: ESC M (reverse index), then the first byte of a UTF-8
\* sequence
HudScript == << <<27, 77>>, <<195>> >>

\* the runs of the recorder: the Makefile's example with --output and nobody
\* typing, and a short child with a user at the keyboard, with and without
\* --hud and --output
RecRuns ==
    {[hud |-> FALSE, ofile |-> TRUE, script |-> ChildScript, user |-> FALSE]}
    \cup {[hud |-> FALSE, ofile |-> o, script |-> ShortScript, user |-> TRUE] : o \in BOOLEAN}
    \cup {[hud |-> TRUE, ofile |-> TRUE, script |-> HudScript, user |-> FALSE]}

\* the runs of the recorder that show the HUD's conditions
HudRuns ==
    {[hud |-> TRUE, ofile |-> FALSE, script |-> HudScript, user |-> TRUE],
     [hud |-> FALSE, ofile |-> FALSE, script |-> HudScript, user |-> FALSE]}

\* the ways a child ends: exit(0), exit(3), killed by SIGTERM
ChildEnds ==
    {[how |-> "exit", code |-> 0], [how |-> "exit", code |-> 3], [how |-> "signal", code |-> 15]}

\* the recorder before main has run
NoRec ==
    [pc |-> "start",
     \* what the child writes, and whether somebody types
     script |-> <<>>, user |-> FALSE,
     \* locals of main
     hud |-> FALSE, ofile |-> FALSE, done |-> FALSE, stdin_closed |-> FALSE,
     ourStatus |-> 0, totalRead |-> 0, totalWritten |-> 0, hud_ok |-> FALSE,
     \* locals of an iteration of the loop (they are dead between iterations,
     \* and kept at their initial values there): pselect's result and readfds
     \* and the two read results; whether I/O was done in the last iteration,
     \* and whether the loop was left by break
     ret |-> 0, errno |-> "none", in_stdin |-> FALSE, in_pty |-> FALSE,
     iodone |-> FALSE, readn |-> 0, writen |-> 0, brk |-> FALSE,
     \* the child: running, closed (its descriptors are closed but it cannot be
     \* waited for yet), zombie, reaped; how it ended; the lines it has written
     child |-> [state |-> "none", how |-> "none", code |-> 0], sent |-> 0,
     \* the pseudo-terminal: bytes of the child not read yet, bytes written to
     \* it, its window size
     pty_out |-> <<>>, pty_in |-> <<>>,
     pty_ws |-> [ws_row |-> 0, ws_col |-> 0, ws_xpixel |-> 0, ws_ypixel |-> 0],
     \* standard input: bytes not read yet, end of stream, bytes typed so far
     stdin |-> <<>>, stdin_eof |-> FALSE, typed |-> 0,
     \* what write_all has written to descriptor 1, what fwrite has appended
     \* to the output file, the status main returned
     stdout |-> <<>>, file |-> <<>>, status |-> -1,
     \* history: the bytes read from the pseudo-terminal, whether a read of
     \* standard input has returned 0, and for the last iteration whether
     \* standard input was watched, was read, whether the HUD was drawn, and
     \* whether a write failed (wfail), and whether one has failed so far
     pty_read |-> <<>>, eof_seen |-> FALSE, watched |-> FALSE, stdin_read |-> FALSE,
     hud_drawn |-> FALSE, wfail |-> FALSE, failed |-> FALSE,
     \* and the chunk read from the pseudo-terminal in the last iteration
     chunk |-> <<>>,
     \* the resize forwarding step by step: the local current_ws; history: the
     \* sizes given to ioctl(TIOCSWINSZ), the sizes the queries of the session
     \* have returned, and the number of resize signals delivered
     current_ws |-> [ws_row |-> 0, ws_col |-> 0, ws_xpixel |-> 0, ws_ypixel |-> 0],
     fwd |-> <<>>, queried |-> {}, winches |-> 0]

Least(x, y) == IF x < y THEN x ELSE y

\* what write_all(fd, buf, len) returns, len > 0, when k bytes were written
\* before it returned: len after the last write, and when a write failed the
\* bytes written so far, or -1 if there are none
write_all_ret(len, k) == IF k = len THEN len ELSE IF k > 0 THEN k ELSE -1

\* partial_end that looks at the last byte only
partial_end_last_byte(buf) ==
    Len(buf) > 0 /\ buf[Len(buf)] >= 128

\* partial_end(buf, len): the chunk ends inside a UTF-8 sequence or after an
\* escape byte that no letter follows
partial_end(buf) ==
    LET len == Len(buf)
        escs == {i \in 1..len : buf[i] = 27}
    IN IF len = 0
       THEN FALSE
       ELSE IF buf[len] >= 128
            THEN TRUE
            ELSE IF escs = {}
                 THEN FALSE
                 ELSE LET last_esc == CHOOSE i \in escs : \A j \in escs : j <= i
                      IN ~\E i \in (last_esc + 1)..len :
                             \/ (buf[i] >= 65 /\ buf[i] <= 90)
                             \/ (buf[i] >= 97 /\ buf[i] <= 122)

\* the returns of pselect in the state r: interrupted by a signal, failed, or
\* a non-empty set of the watched descriptors that are ready (standard input
\* when it has bytes or is at its end, the pseudo-terminal when it has bytes
\* or the child's side is closed)
Selects(r) ==
    LET stdin_ready == ~r.stdin_closed /\ (r.stdin # <<>> \/ r.stdin_eof)
        pty_ready == r.pty_out # <<>> \/ r.child.state # "running"
    IN {[ret |-> -1, errno |-> e, in_stdin |-> FALSE, in_pty |-> FALSE] : e \in {EINTR, ENOMEM}}
       \cup
       {[ret |-> (IF i THEN 1 ELSE 0) + (IF p THEN 1 ELSE 0), errno |-> "none",
         in_stdin |-> i, in_pty |-> p] :
           <<i, p>> \in {x \in BOOLEAN \X BOOLEAN :
                            /\ x[1] \/ x[2]
                            /\ x[1] => stdin_ready
                            /\ x[2] => pty_ready}}

\* the top of an iteration: the watched set, pselect, and the forwarding of a
\* resize to the pseudo-terminal (tiocok: ioctl(TIOCSWINSZ) succeeds)
rec_top(r, s, sel, tiocok) ==
    LET ap == s.aps[s.global_ap]
        r1 == [r EXCEPT !.watched = ~r.stdin_closed,
                        !.ret = sel.ret, !.errno = sel.errno,
                        !.in_stdin = sel.in_stdin, !.in_pty = sel.in_pty,
                        !.iodone = FALSE, !.readn = 0, !.writen = 0,
                        !.stdin_read = FALSE, !.hud_drawn = FALSE, !.wfail = FALSE,
                        !.chunk = <<>>]
        r2 == IF ap.resized /\ tiocok
              THEN [r1 EXCEPT !.pty_ws = [ws_row |-> ap.h, ws_col |-> ap.w,
                                          ws_xpixel |-> ap.xpixel, ws_ypixel |-> ap.ypixel]]
              ELSE r1
        s1 == [s EXCEPT !.aps[s.global_ap].resized = FALSE]
    IN IF sel.ret < 0 /\ sel.errno # EINTR
       THEN [r |-> [r2 EXCEPT !.brk = TRUE], s |-> s1]
       ELSE [r |-> r2, s |-> s1]

\* the results of read(STDIN_FILENO) and of the write_all to the
\* pseudo-terminal that follows it: n bytes read (0 at the end of the stream,
\* -1 on an error), k of them written before write_all returned (k < n: a
\* write failed with an errno other than EINTR)
StdinOutcomes(st) ==
    IF st.r.brk \/ st.r.stdin_closed \/ ~(st.r.ret > 0 /\ st.r.in_stdin)
    THEN {[skip |-> TRUE, n |-> 0, k |-> 0]}
    ELSE {[skip |-> FALSE, n |-> -1, k |-> 0]}
         \cup (IF st.r.stdin # <<>>
               THEN {[skip |-> FALSE, n |-> x[1], k |-> x[2]] : x \in
                        {x \in (1..Least(Len(st.r.stdin), MaxChunk)) \X (0..MaxChunk) : x[2] <= x[1]}}
               ELSE IF st.r.stdin_eof THEN {[skip |-> FALSE, n |-> 0, k |-> 0]} ELSE {})

\* rec_stdin that goes on watching standard input after its end
rec_stdin_reopen(st, o) ==
    LET r == st.r
    IN IF o.skip
       THEN st
       ELSE IF o.n > 0
            THEN LET r1 == [r EXCEPT !.stdin_read = TRUE, !.readn = o.n,
                                     !.stdin = SubSeq(@, o.n + 1, Len(@)),
                                     !.pty_in = @ \o SubSeq(r.stdin, 1, o.k),
                                     !.failed = @ \/ o.k < o.n,
                                     !.wfail = o.k < o.n]
                 IN IF write_all_ret(o.n, o.k) < 0
                    THEN [st EXCEPT !.r = [r1 EXCEPT !.done = TRUE, !.brk = TRUE]]
                    ELSE [st EXCEPT !.r = [r1 EXCEPT !.iodone = TRUE]]
            ELSE IF o.n = 0
                 THEN [st EXCEPT !.r = [r EXCEPT !.stdin_read = TRUE, !.readn = 0,
                                                 !.eof_seen = TRUE]]
                 ELSE [st EXCEPT !.r = [r EXCEPT !.stdin_read = TRUE, !.readn = -1]]

\* standard input to the child
rec_stdin(st, o) ==
    LET r == st.r
    IN IF o.skip
       THEN st
       ELSE IF o.n > 0
            THEN LET r1 == [r EXCEPT !.stdin_read = TRUE, !.readn = o.n,
                                     !.stdin = SubSeq(@, o.n + 1, Len(@)),
                                     !.pty_in = @ \o SubSeq(r.stdin, 1, o.k),
                                     !.failed = @ \/ o.k < o.n,
                                     !.wfail = o.k < o.n]
                 IN IF write_all_ret(o.n, o.k) < 0
                    THEN [st EXCEPT !.r = [r1 EXCEPT !.done = TRUE, !.brk = TRUE]]
                    ELSE [st EXCEPT !.r = [r1 EXCEPT !.iodone = TRUE]]
            ELSE IF o.n = 0
                 THEN [st EXCEPT !.r = [r EXCEPT !.stdin_read = TRUE, !.readn = 0,
                                                 !.stdin_closed = TRUE, !.eof_seen = TRUE]]
                 ELSE [st EXCEPT !.r = [r EXCEPT !.stdin_read = TRUE, !.readn = -1]]

\* the results of read(fd) on the pseudo-terminal and of the writes that follow
\* it: n bytes read (0 at the end of the stream, -1 with errno on an error), k
\* of them written to descriptor 1 by write_all, saved of them by fwrite
PtyOutcomes(st) ==
    IF st.r.brk \/ ~(st.r.ret > 0 /\ st.r.in_pty)
    THEN {[skip |-> TRUE, n |-> 0, errno |-> "none", k |-> 0, saved |-> 0]}
    ELSE {[skip |-> FALSE, n |-> -1, errno |-> EINTR, k |-> 0, saved |-> 0]}
         \cup (IF st.r.pty_out # <<>>
               THEN {[skip |-> FALSE, n |-> x[1], errno |-> "none", k |-> x[2], saved |-> x[3]] :
                        x \in {y \in (1..Least(Len(st.r.pty_out), MaxChunk))
                                     \X (0..MaxChunk) \X (0..MaxChunk) :
                                  /\ y[2] <= y[1]
                                  /\ y[3] <= y[1]
                                  /\ (y[2] = 0 \/ ~st.r.ofile) => y[3] = y[1]}}
               ELSE IF st.r.child.state # "running"
                    THEN {[skip |-> FALSE, n |-> 0, errno |-> "none", k |-> 0, saved |-> 0],
                          [skip |-> FALSE, n |-> -1, errno |-> EIO, k |-> 0, saved |-> 0]}
                    ELSE {})

\* the child's output to standard output and to the output file
rec_pty(st, o) ==
    LET r == st.r
        chunk == SubSeq(r.pty_out, 1, o.n)
    IN IF o.skip
       THEN st
       ELSE IF o.n > 0
            THEN LET r1 == [r EXCEPT !.writen = o.n, !.chunk = chunk,
                                     !.pty_out = SubSeq(@, o.n + 1, Len(@)),
                                     !.pty_read = @ \o chunk,
                                     !.stdout = @ \o SubSeq(chunk, 1, o.k),
                                     !.failed = @ \/ o.k < o.n,
                                     !.wfail = o.k < o.n]
                 IN IF write_all_ret(o.n, o.k) < 0
                    THEN [st EXCEPT !.r = [r1 EXCEPT !.done = TRUE, !.brk = TRUE]]
                    ELSE IF r.ofile /\ o.saved # o.n
                         THEN [st EXCEPT !.r = [r1 EXCEPT !.file = @ \o SubSeq(chunk, 1, o.saved),
                                                          !.failed = TRUE, !.wfail = TRUE,
                                                          !.pc = "return", !.status = 1]]
                         ELSE [st EXCEPT !.r =
                                  [r1 EXCEPT !.file = IF r.ofile THEN @ \o chunk ELSE @,
                                             !.hud_ok = r.hud /\ ~partial_end(chunk),
                                             !.iodone = TRUE]]
            ELSE IF o.n = 0 \/ o.errno = EIO
                 THEN [st EXCEPT !.r = [r EXCEPT !.writen = o.n, !.done = TRUE]]
                 ELSE [st EXCEPT !.r = [r EXCEPT !.writen = o.n]]

\* the HUD: the counts of the iteration and the totals, in inverse colours at
\* the top of the screen, flushed to the terminal
rec_hud(s, r) ==
    LET a == s.global_ap
        s1 == ap_move_to(ap_save_cursor(s, a), a, 0, 0)
        s2 == ap_itoa(ap_str(ap_str(s1, a, "ESC[7m"), a, "R: "), a, r.readn)
        s3 == ap_itoa(ap_str(s2, a, " ("), a, r.totalRead)
        s4 == ap_itoa(ap_str(s3, a, "), W: "), a, r.writen)
        s5 == ap_itoa(ap_str(s4, a, " ("), a, r.totalWritten)
    IN ap_flush(ap_restore_cursor(ap_str(s5, a, ") ESC[m"), a), a)

\* waitpid(pid, &status, WNOHANG): a zombie is reaped and its status decides
\* ourStatus; a child that has not ended, or cannot be waited for yet, gives 0
rec_waitpid(r) ==
    IF r.child.state = "zombie"
    THEN [r EXCEPT !.child.state = "reaped",
                   !.ourStatus = IF r.child.how = "exit"
                                 THEN (IF r.child.code # 0 THEN 1 ELSE 0)
                                 ELSE 2,
                   !.done = TRUE]
    ELSE r

\* the end of an iteration: after I/O the totals and the HUD, and continue;
\* otherwise the check of the child
rec_rest(st) ==
    LET r == st.r
    IN IF r.brk \/ r.pc = "return"
       THEN st
       ELSE IF r.iodone
            THEN LET r1 == [r EXCEPT !.totalRead = @ + r.readn,
                                     !.totalWritten = @ + r.writen]
                 IN IF r1.hud_ok
                    THEN [r |-> [r1 EXCEPT !.hud_drawn = TRUE], s |-> rec_hud(st.s, r1)]
                    ELSE [st EXCEPT !.r = r1]
            ELSE [st EXCEPT !.r = rec_waitpid(r)]

\* the locals of the iteration go out of use
rec_locals(st) ==
    [st EXCEPT !.r = [@ EXCEPT !.ret = 0, !.errno = "none", !.in_stdin = FALSE,
                               !.in_pty = FALSE, !.readn = 0, !.writen = 0]]

\* the process ends with the status main returns: the exit routines run
rec_return(st, status) ==
    [r |-> [st.r EXCEPT !.pc = "returned", !.status = status],
     s |-> [RunAtexits(st.s, Len(st.s.atexits)) EXCEPT !.exited = TRUE]]

-----------------------------------------------------------------------------
(* The filter (demos/filter.c).  Its two working buffers are modelled by    *)
(* their contents; transfer and consume act on the contents as buf.c's do.  *)

FILTER_DEFAULT == "FILTER_DEFAULT"
FILTER_ALL == "FILTER_ALL"

\* enum BUF_SIZE, in a DEBUG build and in the others
BUF_SIZE_DEBUG == 3
BUF_SIZE_RELEASE == 65536
BUF_SIZE(debug) == IF debug THEN BUF_SIZE_DEBUG ELSE BUF_SIZE_RELEASE

\* the filter before main has run
NoFlt ==
    [pc |-> "start",
     \* the command line and the build: -a, -n, DEBUG
     mode |-> FILTER_DEFAULT, frames_limit |-> -1, debug |-> FALSE,
     \* the bytes of the input file not read yet
     stream |-> <<>>,
     \* inputbuf, outbuf, frames_count, continue_processing
     input |-> <<>>, output |-> <<>>, frames_count |-> 0, ret |-> TRUE,
     \* what reached standard output, the status main returned, and whether
     \* main logged an unterminated sequence after the loop
     stdout |-> <<>>, status |-> -1, unterminated |-> FALSE,
     \* history: the sequences the input was made of; inputbuf when the last
     \* pass started, outbuf when it returned, the frame counter before it;
     \* the number of reads done, and of reads done after a pass logged an
     \* unrecognized sequence; the number of calls of filter in the last pass
     items |-> <<>>, pass_input |-> <<>>, pass_output |-> <<>>, pass_frames |-> 0,
     logged |-> FALSE, reads |-> 0, reads_after_error |-> 0, steps |-> 0]

\* memchr(input->data, ESC, input->size): the index of the first escape byte,
\* 0 if there is none
FirstEsc(input) ==
    IF \E i \in 1..Len(input) : input[i] = 27
    THEN CHOOSE i \in 1..Len(input) : input[i] = 27 /\ \A j \in 1..(i - 1) : input[j] # 27
    ELSE 0

\* transfer(output, input, n) on the contents
transfer_bytes(f, n) ==
    [f EXCEPT !.output = @ \o SubSeq(f.input, 1, n),
              !.input = SubSeq(@, n + 1, Len(@))]

\* consume that leaves the last of the n bytes in the buffer
consume_bytes_short(f, n) ==
    [f EXCEPT !.input = SubSeq(@, n, Len(@))]

\* consume(input, n) on the contents
consume_bytes(f, n) ==
    [f EXCEPT !.input = SubSeq(@, n + 1, Len(@))]

\* the index of the byte that closes the CSI sequence at the head of input
\* (the first byte in 0x40..0x7E after ESC [), 0 if it is not there yet
CsiEnd(input) ==
    LET ends == {i \in 3..Len(input) : input[i] >= 64 /\ input[i] <= 126}
    IN IF ends = {} THEN 0 ELSE CHOOSE i \in ends : \A j \in ends : i <= j

\* the J of a CSI sequence: frames_count++, and whether the limit is reached
count_frame(f, c) ==
    IF c = 74 THEN [f EXCEPT !.frames_count = @ + 1] ELSE f

\* the frame limit test with > for >=
limit_reached_late(f, c) ==
    c = 74 /\ f.frames_limit > 0 /\ f.frames_count > f.frames_limit

limit_reached(f, c) ==
    c = 74 /\ f.frames_limit > 0 /\ f.frames_count >= f.frames_limit

\* the default case of the two switches: the error is logged; a DEBUG build
\* returns false, the others leave the switch and return true
other_sequence(f) ==
    [f EXCEPT !.logged = TRUE, !.ret = ~f.debug]

RECURSIVE filter(_, _)
RECURSIVE filterALL(_)
RECURSIVE filterDefault(_)

\* filter that moves nothing to the output
filter_keep(f0, mode) == [f0 EXCEPT !.ret = TRUE]

\* filterDefault that removes ESC 7 and ESC 8 as filterALL does
filterDefault_strip(f0) ==
    Only({
        LET c == f.input[2]
            i == CsiEnd(f.input)
        IN IF c = 55 \/ c = 56
           THEN filter(consume_bytes(f, 2), FILTER_DEFAULT)
           ELSE IF c = 91
                THEN IF i = 0
                     THEN [f EXCEPT !.ret = TRUE]
                     ELSE LET f1 == count_frame(f, f.input[i])
                          IN IF limit_reached(f1, f.input[i])
                             THEN [f1 EXCEPT !.ret = FALSE]
                             ELSE IF f.input[3] = 63
                                  THEN filter(consume_bytes(f1, i), FILTER_DEFAULT)
                                  ELSE filter(transfer_bytes(f1, i), FILTER_DEFAULT)
                ELSE other_sequence(f) : f \in {f0}})

\* filterALL that copies CSI sequences to the output
filterALL_keep(f0) ==
    Only({
        LET c == f.input[2]
            i == CsiEnd(f.input)
        IN IF c = 55 \/ c = 56
           THEN filter(consume_bytes(f, 2), FILTER_ALL)
           ELSE IF c = 91
                THEN IF i = 0
                     THEN [f EXCEPT !.ret = TRUE]
                     ELSE LET f1 == count_frame(f, f.input[i])
                          IN IF limit_reached(f1, f.input[i])
                             THEN [f1 EXCEPT !.ret = FALSE]
                             ELSE filter(transfer_bytes(f1, i), FILTER_ALL)
                ELSE other_sequence(f) : f \in {f0}})

filterALL(f0) ==
    Only({
        LET c == f.input[2]
            i == CsiEnd(f.input)
        IN IF c = 55 \/ c = 56
           THEN filter(consume_bytes(f, 2), FILTER_ALL)
           ELSE IF c = 91
                THEN IF i = 0
                     THEN [f EXCEPT !.ret = TRUE]
                     ELSE LET f1 == count_frame(f, f.input[i])
                          IN IF limit_reached(f1, f.input[i])
                             THEN [f1 EXCEPT !.ret = FALSE]
                             ELSE filter(consume_bytes(f1, i), FILTER_ALL)
                ELSE other_sequence(f) : f \in {f0}})

filterDefault(f0) ==
    Only({
        LET c == f.input[2]
            i == CsiEnd(f.input)
        IN IF c = 55 \/ c = 56
           THEN filter(transfer_bytes(f, 2), FILTER_DEFAULT)
           ELSE IF c = 91
                THEN IF i = 0
                     THEN [f EXCEPT !.ret = TRUE]
                     ELSE LET f1 == count_frame(f, f.input[i])
                          IN IF limit_reached(f1, f.input[i])
                             THEN [f1 EXCEPT !.ret = FALSE]
                             ELSE IF f.input[3] = 63
                                  THEN filter(consume_bytes(f1, i), FILTER_DEFAULT)
                                  ELSE filter(transfer_bytes(f1, i), FILTER_DEFAULT)
                ELSE other_sequence(f) : f \in {f0}})

\* one filtering pass: the text before the first escape byte goes to the
\* output; a sequence of at least 3 bytes is handed to the mode's function
filter(f0, mode) ==
    Only({
        LET esc == FirstEsc(f.input)
            n == IF esc = 0 THEN Len(f.input) ELSE esc - 1
        IN IF esc = 0
           THEN [transfer_bytes(f, n) EXCEPT !.ret = TRUE]
           ELSE IF Len(f.input) - n < 3
                THEN [transfer_bytes(f, n) EXCEPT !.ret = TRUE]
                ELSE IF mode = FILTER_DEFAULT
                     THEN filterDefault(transfer_bytes(f, n))
                     ELSE filterALL(transfer_bytes(f, n)) :
             f \in {[f0 EXCEPT !.steps = @ + 1]}})

\* the outcomes of read_n(ifile, &inputbuf, BUF_SIZE): -1, 0 at the end of the
\* input, or a count up to BUF_SIZE of the bytes that are left
ReadCounts(f) ==
    {-1} \cup (IF f.stream = <<>>
               THEN {0}
               ELSE 1..Least(Len(f.stream), BUF_SIZE(f.debug)))

\* flt_pass that filters the bytes just read without what the pass before
\* left in inputbuf
flt_pass_fresh(f0, n) ==
    Only({LET r == filter([f EXCEPT !.logged = FALSE, !.steps = 0], f.mode)
          IN [r EXCEPT !.pass_output = r.output] :
             f \in {[f0 EXCEPT !.input = SubSeq(f0.stream, 1, n),
                               !.stream = SubSeq(@, n + 1, Len(@)),
                               !.pass_input = SubSeq(f0.stream, 1, n),
                               !.pass_frames = f0.frames_count,
                               !.reads = @ + 1,
                               !.reads_after_error = IF f0.logged THEN @ + 1 ELSE @]}})

\* the pass of an iteration of main's loop on the n bytes just read
flt_pass(f0, n) ==
    Only({LET r == filter([f EXCEPT !.logged = FALSE, !.steps = 0], f.mode)
          IN [r EXCEPT !.pass_output = r.output] :
             f \in {[f0 EXCEPT !.input = @ \o SubSeq(f0.stream, 1, n),
                               !.stream = SubSeq(@, n + 1, Len(@)),
                               !.pass_input = f0.input \o SubSeq(f0.stream, 1, n),
                               !.pass_frames = f0.frames_count,
                               !.reads = @ + 1,
                               !.reads_after_error = IF f0.logged THEN @ + 1 ELSE @]}})

\* write_buf(1, outbuf) and the end of the iteration: wrok says whether the
\* write of a non-empty outbuf succeeds
flt_write(f, wrok) ==
    IF f.output # <<>> /\ ~wrok
    THEN [f EXCEPT !.pc = "returned", !.status = 1]
    ELSE [f EXCEPT !.stdout = @ \o f.output, !.output = <<>>,
                   !.pc = IF f.ret THEN "loop" ELSE "after"]

\* the sequences a filter input is made of: text, CSI sequences (erase in
\* display, colours, hide cursor, synchronized update, status report), cursor
\* save and restore, keypad mode, character set, OSC, DCS, reset
TextA == <<97>>
TextB == <<98, 98>>
CsiClear == <<27, 91, 50, 74>>
CsiColor == <<27, 91, 109>>
CsiHide == <<27, 91, 63, 50, 53, 108>>
CsiSyncOn == <<27, 91, 63, 50, 48, 50, 54, 104>>
CsiSyncOff == <<27, 91, 63, 50, 48, 50, 54, 108>>
CsiReport == <<27, 91, 54, 110>>
EscSave == <<27, 55>>
EscRestore == <<27, 56>>
EscKeypad == <<27, 62>>
EscKeypadOff == <<27, 61>>
EscCharset == <<27, 40, 66>>
EscCharset1 == <<27, 41, 48>>
OscBel == <<27, 93, 48, 7>>
OscSt == <<27, 93, 48, 27, 92>>
Dcs == <<27, 80, 113, 27, 92>>
EscReset == <<27, 99>>
\* a CSI sequence cut before its final byte
CsiCut == <<27, 91, 50>>

\* the sequences the switches of filterALL and filterDefault have a case for
KnownItems == {TextA, TextB, CsiClear, CsiColor, CsiHide, EscSave, EscRestore}

\* all of them
AllItems ==
    KnownItems \cup {CsiSyncOn, CsiSyncOff, CsiReport, EscKeypad, EscKeypadOff, EscCharset,
                     EscCharset1, OscBel, OscSt, Dcs, EscReset}

\* complete sequences the filter has a case for, for the runs with a frame limit
LimitItems == {TextA, CsiClear, CsiColor, CsiHide, EscSave}

\* sequences of every kind: handled, not handled, and cut short
ChunkItems == {TextA, CsiClear, CsiColor, EscSave, EscReset, CsiCut}

RECURSIVE Flatten(_)
Flatten(its) == IF its = <<>> THEN <<>> ELSE Head(its) \o Flatten(Tail(its))

-----------------------------------------------------------------------------
(* The buffer scenarios: calls of the buffer library on two buffers and a slice *)

\* State abstraction: the cells of a buffer's block past its size are forgotten
\* (made indeterminate) after every call.  No operation of buf.c reads them, and
\* a read of them would surface as Undef in a content.
Forget(h, bs) ==
    [h EXCEPT !.blk = [i \in 1..MaxBlocks |->
        IF \E t \in Bufs : bs[t].data = [blk |-> i, off |-> 0] /\ @[i].live
        THEN LET t == CHOOSE t \in Bufs : bs[t].data = [blk |-> i, off |-> 0]
             IN [@[i] EXCEPT !.mem = Bytes([k \in 1..Len(@) |-> IF k <= bs[t].size THEN @[k] ELSE Undef])]
        ELSE @[i]]]

NoCall == [op |-> "none", tgt |-> "dest", n |-> 0, m |-> 0, bytes |-> <<>>, ret |-> 0,
           pre |-> [x \in Bufs |-> ZeroBuf], prec |-> [x \in Bufs |-> <<>>],
           presl |-> ZeroBuf, prelive |-> {}]

\* the record of a call of op on buffer t (and u, for a call that takes two) with
\* arguments n, m, bytes and result ret; it keeps the buffers the call was given
\* as they were when it was called
Called(op, t, u, n, m, bytes, ret) ==
    [op |-> op, tgt |-> t, n |-> n, m |-> m, bytes |-> bytes, ret |-> ret,
     pre |-> [x \in Bufs |-> IF x \in {t, u} THEN b[x] ELSE ZeroBuf],
     prec |-> [x \in Bufs |-> IF x \in {t, u} THEN Content(heap, b[x]) ELSE <<>>],
     presl |-> IF op \in {"slice_buf", "free_buf_slice", "append_data_slice", "ensure_cap_slice"}
              THEN sl ELSE ZeroBuf,
     prelive |-> LiveBlocks(heap)]

\* a buffer made by new_buf(cap) and one append_str(str), as a program makes one
MadeBuf(h, cap, str) ==
    LET n == new_buf(h, cap, FALSE)
    IN append_str(n.heap, n.buf, str, FALSE)

\* the bytes of the source buffer of the main scenario
SrcBytes == <<65, 66>>

\* the main scenario starts with an empty (zero-initialized) destination and a
\* source buffer that holds SrcBytes
Init ==
    LET ms == MadeBuf(EmptyHeap, Len(SrcBytes), SrcBytes)
    IN /\ heap = ms.heap
       /\ b = [t \in Bufs |-> IF t = "dest" THEN ZeroBuf ELSE ms.buf]
       /\ sl = ZeroBuf
       /\ call = NoCall
       /\ qs = <<>>
       /\ wr = NoWrite
       /\ sess = NoSess
       /\ apcall = NoApCall
       /\ aphist = NoHist
       /\ rec = NoRec
       /\ flt = NoFlt

\* the release scenario starts with no buffer made
InitFree ==
    /\ heap = EmptyHeap
    /\ b = [x \in Bufs |-> ZeroBuf]
    /\ sl = ZeroBuf
    /\ call = NoCall
    /\ qs = <<>>
    /\ wr = NoWrite
    /\ sess = NoSess
    /\ apcall = NoApCall
    /\ aphist = NoHist
    /\ rec = NoRec
    /\ flt = NoFlt

\* b[t] = new_buf(size), into a buffer variable that holds no storage
NewBuf(t) ==
    \E size \in 0..MaxCap, nonnull \in BOOLEAN :
        /\ b[t].data = NULL
        /\ LET r == new_buf(heap, size, nonnull)
           IN /\ b' = [b EXCEPT ![t] = r.buf]
              /\ heap' = Forget(r.heap, b')
        /\ call' = Called("new_buf", t, t, size, 0, <<>>, 0)
        /\ UNCHANGED <<sl, qs, wrVars, apVars, rec, flt>>

FreeBuf(t) ==
    /\ LET r == free_buf(heap, FALSE, b[t])
       IN /\ b' = [b EXCEPT ![t] = r.buf]
          /\ heap' = Forget(r.heap, b')
    /\ call' = Called("free_buf", t, t, 0, 0, <<>>, 0)
    /\ UNCHANGED <<sl, qs, wrVars, apVars, rec, flt>>

EnsureCap(t) ==
    \E n \in 0..MaxCap : \E mv \in Moves(b[t], n) :
        /\ GrowthOk(b[t], n)
        /\ LET r == ensure_cap(heap, b[t], n, mv)
           IN /\ b' = [b EXCEPT ![t] = r.buf]
              /\ heap' = Forget(r.heap, b')
        /\ call' = Called("ensure_cap", t, t, n, 0, <<>>, 0)
        /\ UNCHANGED <<sl, qs, wrVars, apVars, rec, flt>>

\* append_data(&b[t], bytes, Len(bytes)) of bytes over the alphabet A
AppendData(t, A) ==
    \E bytes \in SeqsUpTo(A, MaxLit) : \E mv \in Moves(b[t], b[t].size + Len(bytes)) :
        /\ GrowthOk(b[t], b[t].size + Len(bytes))
        /\ LET r == append_data(heap, b[t], LitSrc(bytes), Len(bytes), mv)
           IN /\ b' = [b EXCEPT ![t] = r.buf]
              /\ heap' = Forget(r.heap, b')
        /\ call' = Called("append_data", t, t, Len(bytes), 0, bytes, 0)
        /\ UNCHANGED <<sl, qs, wrVars, apVars, rec, flt>>

AppendStr(t, A) ==
    \E str \in SeqsUpTo(A, MaxLit) : \E mv \in Moves(b[t], b[t].size + Len(str)) :
        /\ GrowthOk(b[t], b[t].size + Len(str))
        /\ LET r == append_str(heap, b[t], str, mv)
           IN /\ b' = [b EXCEPT ![t] = r.buf]
              /\ heap' = Forget(r.heap, b')
        /\ call' = Called("append_str", t, t, Len(str), 0, str, 0)
        /\ UNCHANGED <<sl, qs, wrVars, apVars, rec, flt>>

AppendByte(t, A) ==
    \E byte \in A : \E mv \in Moves(b[t], b[t].size + 1) :
        /\ GrowthOk(b[t], b[t].size + 1)
        /\ LET r == append_byte(heap, b[t], byte, mv)
           IN /\ b' = [b EXCEPT ![t] = r.buf]
              /\ heap' = Forget(r.heap, b')
        /\ call' = Called("append_byte", t, t, 1, 0, <<byte>>, 0)
        /\ UNCHANGED <<sl, qs, wrVars, apVars, rec, flt>>

\* append_buf(&b[t], b[u]) for two distinct buffers
AppendBuf(t, u) ==
    \E mv \in Moves(b[t], b[t].size + b[u].size) :
        /\ t # u
        /\ GrowthOk(b[t], b[t].size + b[u].size)
        /\ LET r == append_buf(heap, b[t], b[u], mv)
           IN /\ b' = [b EXCEPT ![t] = r.buf]
              /\ heap' = Forget(r.heap, b')
        /\ call' = Called("append_buf", t, u, b[u].size, 0, Content(heap, b[u]), 0)
        /\ UNCHANGED <<sl, qs, wrVars, apVars, rec, flt>>

\* consume(&b[t], n), called as its contract asks: n <= size
Consume(t) ==
    \E n \in 0..b[t].size :
        /\ LET r == consume(heap, b[t], n)
           IN /\ b' = [b EXCEPT ![t] = r.buf]
              /\ heap' = Forget(r.heap, b')
        /\ call' = Called("consume", t, t, n, 0, <<>>, 0)
        /\ UNCHANGED <<sl, qs, wrVars, apVars, rec, flt>>

\* transfer(&b[t], &b[u], n), called as its contract asks: t # u and n <= src size
Transfer(t, u) ==
    \E n \in 0..b[u].size : \E mv \in Moves(b[t], b[t].size + n) :
        /\ t # u
        /\ GrowthOk(b[t], b[t].size + n)
        /\ LET r == transfer(heap, b[t], b[u], n, mv)
           IN /\ b' = [b EXCEPT ![t] = r.dest, ![u] = r.src]
              /\ heap' = Forget(r.heap, b')
        /\ call' = Called("transfer", t, u, n, 0, <<>>, 0)
        /\ UNCHANGED <<sl, qs, wrVars, apVars, rec, flt>>

ReadBuf(t) ==
    \E rd \in sys_read(b[t].cap - b[t].size) :
        /\ LET r == read_buf(heap, b[t], rd)
           IN /\ b' = [b EXCEPT ![t] = r.buf]
              /\ heap' = Forget(r.heap, b')
        /\ call' = Called("read_buf", t, t, 0, 0, <<>>, rd.ret)
        /\ UNCHANGED <<sl, qs, wrVars, apVars, rec, flt>>

ReadAtLeast(t) ==
    \E min \in 0..MaxLit : \E mv \in Moves(b[t], b[t].size + min) :
        /\ GrowthOk(b[t], b[t].size + min)
        /\ \E rd \in sys_read(read_at_least_cap(heap, b[t], min, mv).buf.cap - b[t].size) :
              LET r == read_at_least(heap, b[t], min, mv, rd)
              IN /\ b' = [b EXCEPT ![t] = r.buf]
                 /\ heap' = Forget(r.heap, b')
                 /\ call' = Called("read_at_least", t, t, min, 0, <<>>, rd.ret)
        /\ UNCHANGED <<sl, qs, wrVars, apVars, rec, flt>>

ReadN(t) ==
    \E n \in 0..MaxLit : \E mv \in Moves(b[t], b[t].size + n) :
        /\ GrowthOk(b[t], b[t].size + n)
        /\ \E rd \in sys_read(n) :
              LET r == read_n(heap, b[t], n, mv, rd)
              IN /\ b' = [b EXCEPT ![t] = r.buf]
                 /\ heap' = Forget(r.heap, b')
                 /\ call' = Called("read_n", t, t, n, 0, <<>>, rd.ret)
        /\ UNCHANGED <<sl, qs, wrVars, apVars, rec, flt>>

\* sl = slice_buf(b["dest"], start, end) over bytes the buffer holds
SliceBuf ==
    \E start \in 0..b["dest"].size : \E end \in start..b["dest"].size :
        /\ b["dest"].data # NULL
        /\ sl' = slice_buf(b["dest"], start, end)
        /\ call' = Called("slice_buf", "dest", "dest", start, end, <<>>, 0)
        /\ UNCHANGED <<heap, b, qs, wrVars, apVars, rec, flt>>

\* free_buf(&sl)
FreeBufSlice ==
    /\ LET r == free_buf(heap, FALSE, sl)
       IN /\ sl' = r.buf
          /\ heap' = r.heap
    /\ call' = Called("free_buf_slice", "dest", "dest", 0, 0, <<>>, 0)
    /\ UNCHANGED <<b, qs, wrVars, apVars, rec, flt>>

\* free_buf(NULL)
FreeBufNull ==
    /\ heap' = free_buf(heap, TRUE, ZeroBuf).heap
    /\ call' = Called("free_buf_null", "dest", "dest", 0, 0, <<>>, 0)
    /\ UNCHANGED <<b, sl, qs, wrVars, apVars, rec, flt>>

\* the main scenario: one owning buffer under every operation, with a second
\* buffer to take bytes from
Next ==
    \/ NewBuf("dest")
    \/ FreeBuf("dest")
    \/ EnsureCap("dest")
    \/ AppendData("dest", RdBytes)
    \/ AppendStr("dest", InBytes)
    \/ AppendByte("dest", InBytes)
    \/ AppendBuf("dest", "src")
    \/ Consume("dest")
    \/ Transfer("dest", "src")
    \/ ReadBuf("dest")
    \/ ReadAtLeast("dest")
    \/ ReadN("dest")

Spec == Init /\ [][Next]_vars

\* the transfer scenario: two buffers a program has made and filled
InitXfer ==
    \E cd \in 0..MaxCap, cs \in 0..MaxCap :
        \E x \in SeqsUpTo(InBytes, MaxLit), y \in SeqsUpTo(InBytes, MaxLit) :
            LET md == MadeBuf(EmptyHeap, cd, x)
                ms == MadeBuf(md.heap, cs, y)
                bs == [t \in Bufs |-> IF t = "dest" THEN md.buf ELSE ms.buf]
            IN /\ GrowthOk([ZeroBuf EXCEPT !.cap = cd], Len(x))
               /\ GrowthOk([ZeroBuf EXCEPT !.cap = cs], Len(y))
               /\ heap = Forget(ms.heap, bs)
               /\ b = bs
               /\ sl = ZeroBuf
               /\ call = NoCall
               /\ qs = <<>>
               /\ wr = NoWrite
               /\ sess = NoSess
               /\ apcall = NoApCall
               /\ aphist = NoHist
               /\ rec = NoRec
               /\ flt = NoFlt

NextXfer ==
    \/ Transfer("dest", "src")
    \/ AppendBuf("dest", "src")

SpecXfer == InitXfer /\ [][NextXfer]_vars

\* the release scenario: an owning buffer, a slice of it, and their release
NextFree ==
    \/ NewBuf("dest")
    \/ AppendByte("dest", RdBytes)
    \/ SliceBuf
    \/ FreeBuf("dest")
    \/ FreeBufSlice
    \/ FreeBufNull

SpecFree == InitFree /\ [][NextFree]_vars

-----------------------------------------------------------------------------
(* The quoting scenario: debug_quote and debug_data of one byte string *)

\* longest byte string quoted, of bytes drawn from QuoteBytes
MaxQuoteLen == 2

\* bytes on both sides of every test quote_buf makes
QuoteBytes == {0, 10, 34, 65, 92, 127, 128, 255}

\* the bytes "A\01B\00C\02D\n" that main.c appends and debug-prints
QuoteExample == <<65, 1, 66, 0, 67, 2, 68, 10>>

\* every single byte, every string of QuoteBytes up to MaxQuoteLen, and the example
QuoteInputs == {<<v>> : v \in 0..255} \cup SeqsUpTo(QuoteBytes, MaxQuoteLen) \cup {QuoteExample}

InitQuote ==
    /\ qs \in QuoteInputs
    /\ heap = EmptyHeap
    /\ b = [x \in Bufs |-> ZeroBuf]
    /\ sl = ZeroBuf
    /\ call = NoCall
    /\ wr = NoWrite
    /\ sess = NoSess
    /\ apcall = NoApCall
    /\ aphist = NoHist
    /\ rec = NoRec
    /\ flt = NoFlt

\* b["dest"] = debug_quote(qs, Len(qs)), into a buffer variable that holds no storage
DebugQuote ==
    \E signed \in BOOLEAN, mv \in BOOLEAN :
        /\ b["dest"].data = NULL
        /\ LET r == debug_quote(heap, qs, signed, mv)
           IN /\ b' = [b EXCEPT !["dest"] = r.buf]
              /\ heap' = Forget(r.heap, b')
        /\ call' = Called("debug_quote", "dest", "dest", Len(qs), 0, qs, 0)
        /\ UNCHANGED <<sl, qs, wrVars, apVars, rec, flt>>

\* debug_data(&b["dest"], qs, Len(qs)), b["dest"] being the shared buffer
DebugData ==
    \E signed \in BOOLEAN, mv \in BOOLEAN :
        /\ LET r == debug_data(heap, b["dest"], qs, signed, mv)
           IN /\ b' = [b EXCEPT !["dest"] = r.buf]
              /\ heap' = Forget(r.heap, b')
        /\ call' = Called("debug_data", "dest", "dest", Len(qs), 0, qs, 0)
        /\ UNCHANGED <<sl, qs, wrVars, apVars, rec, flt>>

NextQuote ==
    \/ DebugQuote
    \/ DebugData
    \/ FreeBuf("dest")

SpecQuote == InitQuote /\ [][NextQuote]_vars

-----------------------------------------------------------------------------
(* The write scenario: one call of write_all, write by write *)

\* longest buffer given to write_all
MaxWrLen == 3
\* most write calls one write_all is followed through
MaxWrites == 4

InitWrite ==
    /\ wr = NoWrite
    /\ qs = <<>>
    /\ heap = EmptyHeap
    /\ b = [x \in Bufs |-> ZeroBuf]
    /\ sl = ZeroBuf
    /\ call = NoCall
    /\ sess = NoSess
    /\ apcall = NoApCall
    /\ aphist = NoHist
    /\ rec = NoRec
    /\ flt = NoFlt

\* write_all(fd, buf, len) is called and reaches its first write, or returns
WriteAllCall ==
    \E buf \in SeqsUpTo(InBytes, MaxWrLen) : \E len \in -1..Len(buf) :
        /\ wr.pc = "idle"
        /\ wr' = write_all_enter(wr, buf, len)
        /\ UNCHANGED <<bufVars, qs, apVars, rec, flt>>

\* a write of write_all's loop returns a count of 0..len-total bytes, or fails
\* with EINTR or with another error
WriteAllWrite ==
    \E n \in -1..(wr.len - wr.total) : \E errno \in (IF n < 0 THEN {EINTR, EIO} ELSE {"none"}) :
        /\ wr.pc = "loop"
        /\ wr.writes < MaxWrites
        /\ wr' = write_all(wr, n, errno)
        /\ UNCHANGED <<bufVars, qs, apVars, rec, flt>>

NextWrite ==
    \/ WriteAllCall
    \/ WriteAllWrite

SpecWrite == InitWrite /\ [][NextWrite]_vars

-----------------------------------------------------------------------------
(* The session scenario: a program that opens the terminal session, draws,  *)
(* receives resize signals and exits                                        *)

\* strings held by the session buffer before the scenario stops appending
MaxSessBuf == 1
\* strings written to the terminal before the scenario stops drawing
MaxOut == 1

InitAp ==
    /\ \E t \in TermiosSet, ws \in WinSizes :
          sess = [NoSess EXCEPT !.termios = t, !.winsize = ws]
    /\ apcall = NoApCall
    /\ aphist = NoHist
    /\ rec = NoRec
    /\ flt = NoFlt
    /\ qs = <<>>
    /\ wr = NoWrite
    /\ heap = EmptyHeap
    /\ b = [x \in Bufs |-> ZeroBuf]
    /\ sl = ZeroBuf
    /\ call = NoCall

\* the record of a session call, with the state it was called in for ap_open,
\* ap_cleanup, exit and handle_winch
ApCalled(op, ret) ==
    [op |-> op, ret |-> ret,
     pre |-> IF op \in {"ap_open", "ap_cleanup", "exit", "handle_winch"}
             THEN sess ELSE NoSess]

ApOpen ==
    \E callocok \in BOOLEAN, tcok \in BOOLEAN, iook \in BOOLEAN :
        /\ ~sess.exited
        /\ sess.global_ap # NoAp \/ sess.time_inits < MaxOpens
        /\ LET r == ap_open(sess, callocok, tcok, iook)
           IN /\ sess' = r.s
              /\ apcall' = ApCalled("ap_open", r.ret)
              /\ aphist' = IF r.ret = NoAp THEN aphist
                            ELSE [NoHist EXCEPT !.opened = TRUE, !.captured = sess.termios]
        /\ UNCHANGED <<bufVars, qs, wrVars, rec, flt>>

\* SIGWINCH is delivered to the process that has installed handle_winch; the
\* call is recorded with the result of its ioctl
SigWinch ==
    \E iook \in BOOLEAN :
        /\ ~sess.exited
        /\ sess.sa_winch
        /\ sess' = handle_winch(sess, iook)
        /\ apcall' = ApCalled("handle_winch", IF iook THEN 0 ELSE -1)
        /\ aphist' = aphist
        /\ UNCHANGED <<bufVars, qs, wrVars, rec, flt>>

\* the terminal's window is resized to one of sizes
TtyResizeTo(sizes) ==
    \E ws \in sizes \ {sess.winsize} :
        /\ ~sess.exited
        /\ sess' = [sess EXCEPT !.winsize = ws]
        /\ apcall' = ApCalled("resize", 0)
        /\ aphist' = aphist
        /\ UNCHANGED <<bufVars, qs, wrVars, rec, flt>>

TtyResize == TtyResizeTo(WinSizes)

\* the terminal's configuration is changed from outside the session (stty, the
\* program's own tcsetattr)
Stty ==
    \E t \in TermiosSet \ {sess.termios} :
        /\ ~sess.exited
        /\ sess' = [sess EXCEPT !.termios = t]
        /\ apcall' = ApCalled("stty", 0)
        /\ aphist' = aphist
        /\ UNCHANGED <<bufVars, qs, wrVars, rec, flt>>

\* the history after a buffered primitive that appends strs
Drawn(strs) == [aphist EXCEPT !.prims = IF aphist.started THEN @ \o strs ELSE @]

\* ap_clear_screen while the buffer holds less than maxbuf strings and the
\* terminal has received less than maxout; the call is recorded with its
\* argument
ApClearScreenWithin(maxbuf, maxout) ==
    \E immediate \in BOOLEAN :
        /\ ~sess.exited
        /\ sess.global_ap # NoAp
        /\ IF immediate THEN Len(sess.tty_out) < maxout
                        ELSE Len(sess.aps[sess.global_ap].buf) < maxbuf
        /\ sess' = ap_clear_screen(sess, sess.global_ap, immediate)
        /\ apcall' = ApCalled("ap_clear_screen", IF immediate THEN 1 ELSE 0)
        /\ aphist' = [aphist EXCEPT
                         !.cleared = TRUE,
                         !.prims = IF aphist.started /\ ~immediate
                                   THEN Append(@, IF aphist.cleared THEN "ESC[HESC[0J"
                                                                   ELSE "ESC[2JESC[H")
                                   ELSE @]
        /\ UNCHANGED <<bufVars, qs, wrVars, rec, flt>>

ApClearScreen == ApClearScreenWithin(MaxSessBuf, MaxOut)

ApStart ==
    /\ ~sess.exited
    /\ sess.global_ap # NoAp
    /\ sess' = ap_start(sess, sess.global_ap)
    /\ apcall' = ApCalled("ap_start", 0)
    /\ aphist' = [aphist EXCEPT !.started = TRUE, !.prims = <<>>]
    /\ UNCHANGED <<bufVars, qs, wrVars, rec, flt>>

\* ap_end while the terminal has received less than maxout
ApEndWithin(maxout) ==
    /\ ~sess.exited
    /\ sess.global_ap # NoAp
    /\ Len(sess.tty_out) < maxout
    /\ sess' = ap_end(sess, sess.global_ap)
    /\ apcall' = ApCalled("ap_end", 0)
    /\ aphist' = [aphist EXCEPT !.started = FALSE, !.prims = <<>>]
    /\ UNCHANGED <<bufVars, qs, wrVars, rec, flt>>

ApEnd == ApEndWithin(MaxOut)

\* the program returns from main or calls exit: the atexit routines run
Exit ==
    /\ ~sess.exited
    /\ sess' = [RunAtexits(sess, Len(sess.atexits)) EXCEPT !.exited = TRUE]
    /\ apcall' = ApCalled("exit", 0)
    /\ aphist' = aphist
    /\ UNCHANGED <<bufVars, qs, wrVars, rec, flt>>

\* the program calls ap_cleanup itself
ApCleanup ==
    /\ ~sess.exited
    /\ sess' = ap_cleanup(sess)
    /\ apcall' = ApCalled("ap_cleanup", 0)
    /\ aphist' = aphist
    /\ UNCHANGED <<bufVars, qs, wrVars, rec, flt>>

NextAp ==
    \/ ApOpen
    \/ SigWinch
    \/ TtyResize
    \/ ApClearScreen
    \/ ApStart
    \/ ApEnd
    \/ Exit

SpecAp == InitAp /\ [][NextAp]_vars

\* ---- a session from its opening to the exit of the program, on a terminal
\* whose configuration changes meanwhile ----

InitExit ==
    /\ sess = NoSess
    /\ apcall = NoApCall
    /\ aphist = NoHist
    /\ rec = NoRec
    /\ flt = NoFlt
    /\ qs = <<>>
    /\ wr = NoWrite
    /\ heap = EmptyHeap
    /\ b = [x \in Bufs |-> ZeroBuf]
    /\ sl = ZeroBuf
    /\ call = NoCall

NextExit ==
    \/ ApOpen
    \/ Stty
    \/ ApStart
    \/ ApEnd
    \/ ApCleanup
    \/ Exit

SpecExit == InitExit /\ [][NextExit]_vars

\* ---- a session on a terminal that is resized ----

\* the program sees the dirty flag and resets it
ResetResized ==
    /\ ~sess.exited
    /\ sess.global_ap # NoAp
    /\ sess.aps[sess.global_ap].resized
    /\ sess' = [sess EXCEPT !.aps[sess.global_ap].resized = FALSE]
    /\ apcall' = ApCalled("reset_resized", 0)
    /\ aphist' = aphist
    /\ UNCHANGED <<bufVars, qs, wrVars, rec, flt>>

NextSize ==
    \/ ApOpen
    \/ TtyResizeTo(MoreWinSizes)
    \/ SigWinch
    \/ ResetResized

SpecSize == InitExit /\ [][NextSize]_vars

-----------------------------------------------------------------------------
(* Claims about the byte buffer *)

AppendOps == {"append_data", "append_str", "append_byte", "append_buf"}

ReadOps == {"read_buf", "read_at_least", "read_n"}

\* C1: after any append (append_data, append_str, append_byte, append_buf) the
\* buffer's first size bytes are the bytes it held before the call followed by
\* the appended bytes, in order, whether or not the call grew (and moved) the
\* storage; so the content is always the concatenation of everything appended.
C1_AppendKeepsBytes ==
    call.op \in AppendOps =>
        /\ Content(heap, b[call.tgt]) = call.prec[call.tgt] \o call.bytes
        /\ \A i \in 1..b[call.tgt].size : Content(heap, b[call.tgt])[i] # Undef

\* an append onto a non-empty buffer that outgrew its capacity and was moved
C1_Witness ==
    /\ call.op \in AppendOps
    /\ Len(call.bytes) >= 2
    /\ call.pre["dest"].size > 0
    /\ b["dest"].cap > call.pre["dest"].cap
    /\ call.pre["dest"].data # NULL
    /\ b["dest"].data # call.pre["dest"].data

\* C2: ensure_cap(buffer, new_cap) leaves data, size, cap (and the content) as
\* they were if new_cap <= cap; otherwise the capacity becomes exactly
\* max(new_cap, 2 * previous cap) and size is unchanged.  An append that grows
\* the buffer leaves cap = max(size before + appended, 2 * cap before).
C2_EnsureCapGrowth ==
    LET p == call.pre[call.tgt]
        x == b[call.tgt]
        twice == 2 * p.cap
    IN /\ call.op = "ensure_cap" /\ call.n <= p.cap =>
            x = p /\ Content(heap, x) = call.prec[call.tgt]
       /\ call.op = "ensure_cap" /\ call.n > p.cap =>
            /\ x.cap = (IF call.n > twice THEN call.n ELSE twice)
            /\ x.size = p.size
       /\ call.op \in AppendOps /\ x.cap # p.cap =>
            x.cap = (IF p.size + call.n > twice THEN p.size + call.n ELSE twice)

\* an ensure_cap that had to grow and where doubling exceeded the request
C2_Witness ==
    /\ call.op = "ensure_cap"
    /\ call.n > call.pre["dest"].cap
    /\ 2 * call.pre["dest"].cap > call.n
    /\ b["dest"].cap = 2 * call.pre["dest"].cap

\* C3: size <= cap in every state reached by appends, ensure_cap, the three
\* reads, consume (n <= size) and transfer (n <= src.size) on buffers made by
\* new_buf or grown from a zero-initialized buffer.
C3_SizeWithinCap == \A t \in Bufs : b[t].size <= b[t].cap

\* a read that filled a grown buffer to its capacity
C3_Witness ==
    /\ call.op \in ReadOps
    /\ call.ret > 0
    /\ b["dest"].size = b["dest"].cap
    /\ b["dest"].cap > call.pre["dest"].cap
    /\ call.pre["dest"].size > 0

\* C4: consume(b, n) with n <= size leaves the old content without its first n
\* bytes, in the same order, size = old size - n, and cap unchanged.
C4_ConsumeDropsPrefix ==
    LET p == call.pre[call.tgt]
        old == call.prec[call.tgt]
    IN call.op = "consume" =>
        /\ Content(heap, b[call.tgt]) = SubSeq(old, call.n + 1, Len(old))
        /\ b[call.tgt].size = p.size - call.n
        /\ b[call.tgt].cap = p.cap

\* a consume of a proper, non-empty prefix that leaves two different bytes
C4_Witness ==
    /\ call.op = "consume"
    /\ call.n > 0
    /\ b["dest"].size >= 2
    /\ Content(heap, b["dest"])[1] # Content(heap, b["dest"])[2]

\* C5: transfer(dest, src, n) with dest # src and n <= src.size leaves dest
\* holding its old content followed by the first n bytes of old src, and src
\* holding its old content without those n bytes; dest ++ src is unchanged.
C5_TransferMovesBytes ==
    LET od == call.prec["dest"]
        os == call.prec["src"]
    IN call.op = "transfer" =>
        /\ Content(heap, b["dest"]) = od \o SubSeq(os, 1, call.n)
        /\ Content(heap, b["src"]) = SubSeq(os, call.n + 1, Len(os))
        /\ Content(heap, b["dest"]) \o Content(heap, b["src"]) = od \o os

\* a transfer of part of the source onto a non-empty destination that was moved
C5_Witness ==
    /\ call.op = "transfer"
    /\ call.n > 0
    /\ call.n < call.pre["src"].size
    /\ call.pre["dest"].size > 0
    /\ call.pre["dest"].data # NULL
    /\ b["dest"].data # call.pre["dest"].data

\* C6: free_buf on an owning buffer (cap > 0) frees its block and leaves
\* data = NULL, size = 0, cap = 0; on a released buffer, on NULL and on a slice
\* (cap = 0, size = end - start, as slice_buf makes it) it frees nothing and
\* changes no field; no block is ever freed twice or through a slice.
C6_FreeOnce ==
    LET p == call.pre["dest"]
    IN /\ ~heap.ub
       /\ call.op = "free_buf" /\ p.cap > 0 =>
            /\ b["dest"] = ZeroBuf
            /\ LiveBlocks(heap) = call.prelive \ {p.data.blk}
            /\ p.data.blk \in call.prelive
       /\ call.op = "free_buf" /\ p.cap = 0 =>
            b["dest"] = p /\ LiveBlocks(heap) = call.prelive
       /\ call.op = "free_buf_null" =>
            b["dest"] = p /\ LiveBlocks(heap) = call.prelive
       /\ call.op = "free_buf_slice" =>
            sl = call.presl /\ b["dest"] = p /\ LiveBlocks(heap) = call.prelive
       /\ call.op = "slice_buf" =>
            /\ sl.cap = 0
            /\ sl.size = call.m - call.n
            /\ sl.data = [blk |-> p.data.blk, off |-> p.data.off + call.n]

\* free_buf called on a slice that starts at the first byte of its live parent
C6_Witness ==
    /\ call.op = "free_buf_slice"
    /\ sl.size > 0
    /\ sl.data = b["dest"].data
    /\ b["dest"].cap > 0
    /\ sl.data.blk \in LiveBlocks(heap)

-----------------------------------------------------------------------------
(* Claims about debug quoting *)

\* the characters 0123456789ABCDEF
HexUpper == <<48, 49, 50, 51, 52, 53, 54, 55, 56, 57, 65, 66, 67, 68, 69, 70>>

\* the rendering of one byte that the claim states
Rendering(v) ==
    CASE v = 10 -> <<92, 110>>
      [] v = 13 -> <<92, 114>>
      [] v = 9 -> <<92, 116>>
      [] v = 92 -> <<92, 92>>
      [] v = 34 -> <<92, 34>>
      [] OTHER -> IF v < 32 \/ v >= 127
                  THEN <<92, 120, HexUpper[(v \div 16) + 1], HexUpper[(v % 16) + 1]>>
                  ELSE <<v>>

RECURSIVE Rendered(_)
Rendered(s) == IF s = <<>> THEN <<>> ELSE Rendering(Head(s)) \o Rendered(Tail(s))

\* C7: for every byte string s, debug_quote(s) and quote_buf(s) into an emptied
\* buffer leave a double quote, the rendering of each byte of s in order, a
\* double quote and a NUL byte, where a byte renders as the mnemonic for \n, \r,
\* \t, backslash and double quote, as \x and two upper-case hex digits if it is
\* another byte < 0x20 or >= 0x7F, and as itself otherwise.
C7_QuoteRendering ==
    call.op \in {"debug_quote", "debug_data"} =>
        /\ Content(heap, b["dest"]) = <<34>> \o Rendered(call.bytes) \o <<34, 0>>
        /\ ~heap.ub

\* debug_quote of A,0x01,B,0x00,C,0x02,D,\n gives "A\x01B\x00C\x02D\n" and a NUL
C7_Witness ==
    /\ call.op = "debug_quote"
    /\ call.bytes = QuoteExample
    /\ Content(heap, b["dest"]) =
          <<34, 65, 92, 120, 48, 49, 66, 92, 120, 48, 48, 67, 92, 120, 48, 50, 68, 92, 110, 34, 0>>

-----------------------------------------------------------------------------
(* Claims about write_all *)

\* C8: write_all with len <= 0 returns len without a write; with len > 0 every
\* write is of the not-yet-written suffix, a write failing with EINTR is
\* retried, the call returns len once everything is written, and on another
\* error it returns the count written if nonzero and -1 otherwise; the bytes
\* that reached the descriptor are always a prefix of buf.
C8_WriteAll ==
    /\ wr.fd = SubSeq(wr.buf, 1, Len(wr.fd))
    /\ wr.pc = "done" /\ wr.len <= 0 =>
          wr.ret = wr.len /\ wr.writes = 0 /\ wr.fd = <<>>
    /\ wr.pc = "done" /\ wr.len > 0 =>
          \/ wr.ret = wr.len /\ Len(wr.fd) = wr.len /\ wr.n >= 0
          \/ /\ wr.n < 0
             /\ wr.errno # EINTR
             /\ Len(wr.fd) < wr.len
             /\ wr.ret = (IF Len(wr.fd) # 0 THEN Len(wr.fd) ELSE -1)
    /\ wr.pc = "loop" => wr.len > 0 /\ Len(wr.fd) < wr.len
    /\ wr.writes > 0 =>
          /\ wr.off = Len(wr.fd) - (IF wr.n > 0 THEN wr.n ELSE 0)
          /\ wr.cnt = wr.len - wr.off
          /\ wr.n < 0 /\ wr.errno = EINTR => wr.pc = "loop"

\* a call that wrote part of the buffer in more than one write and then failed
C8_Witness ==
    /\ wr.pc = "done"
    /\ wr.writes >= 3
    /\ wr.n < 0
    /\ wr.errno = EIO
    /\ wr.ret = 2
    /\ wr.len = 3
    /\ wr.fd = SubSeq(wr.buf, 1, 2)
    /\ wr.buf[1] # wr.buf[2]

-----------------------------------------------------------------------------
(* Claims about the terminal session *)

\* C9: ap_open called while a session is open returns NULL and leaves the
\* process and the session as they were: global_ap, the struct ap (cached size,
\* flags, buffer), the SIGWINCH handler, the registered exit routines; and an
\* ap_open that returns a handle was called with no session open.
C9_SecondOpenRefused ==
    /\ apcall.op = "ap_open" /\ apcall.pre.global_ap # NoAp =>
          apcall.ret = NoAp /\ sess = apcall.pre
    /\ apcall.op = "ap_open" /\ apcall.ret # NoAp =>
          apcall.pre.global_ap = NoAp /\ sess.global_ap = apcall.ret

\* ap_open refused on a session that has been resized and holds buffered output
C9_Witness ==
    /\ apcall.op = "ap_open"
    /\ apcall.pre.global_ap # NoAp
    /\ apcall.ret = NoAp
    /\ sess.aps[sess.global_ap].resized
    /\ sess.aps[sess.global_ap].buf # <<>>
    /\ sess.sa_winch

\* C10 as stated: after an ap_open that returns a handle the terminal has
\* canonical input processing and echo disabled.
C10_RawAfterOpen ==
    apcall.op = "ap_open" /\ apcall.ret # NoAp =>
        ~sess.termios.icanon /\ ~sess.termios.echo

\* C11: once the exit routines have run after a successful ap_open, the
\* terminal's configuration is the one that was in effect when ap_open captured
\* it, whatever it was changed to in between.
C11_TermiosRoundTrip ==
    (apcall.op = "exit" /\ aphist.opened) => sess.termios = aphist.captured

\* an exit of an opened session whose terminal configuration had been changed
\* since the open, restored by tcsetattr from both registered routines
C11_Witness ==
    /\ apcall.op = "exit"
    /\ aphist.opened
    /\ apcall.pre.termios # aphist.captured
    /\ sess.termios = aphist.captured
    /\ Cardinality({i \in DOMAIN sess.trace : sess.trace[i].ev = "tcsetattr"}) = 2

\* what ap_cleanup leaves of the state pre in which a session is open: on the
\* terminal the buffered bytes, show-cursor and batch-end, then paste-off; then
\* the terminal configuration restored, the session buffer released, the handle
\* released and the singleton cleared, in this order and after the last write
Cleaned(pre) ==
    LET a == pre.global_ap
        out == pre.tty_out \o pre.aps[a].buf \o <<"ESC[?25h", "ESC[?2026l", "ESC[?2004l">>
        after == [ev \in {"tcsetattr", "free_buf", "free", "global_ap"} |->
                     [ev |-> ev, at |-> Len(out)]]
    IN [pre EXCEPT !.tty_out = out,
                   !.termios = pre.original_termios,
                   !.aps[a] = FreeAp,
                   !.global_ap = NoAp,
                   !.trace = @ \o <<after["tcsetattr"], after["free_buf"],
                                    after["free"], after["global_ap"]>>]

\* C12: ap_cleanup on an open session does its seven steps in order and ends with
\* no session open; with no session open it writes nothing and changes nothing.
\* At exit, where it may be registered more than once beside term_restore, the
\* routines after the first ap_cleanup add nothing but their tcsetattr.
C12_CleanupOrdered ==
    /\ apcall.op = "ap_cleanup" =>
          /\ sess = (IF apcall.pre.global_ap = NoAp THEN apcall.pre ELSE Cleaned(apcall.pre))
          /\ sess.global_ap = NoAp
    /\ (apcall.op = "exit" /\ apcall.pre.global_ap # NoAp) =>
          LET c == Cleaned(apcall.pre)
          IN /\ sess.tty_out = c.tty_out
             /\ sess.aps = c.aps
             /\ sess.global_ap = NoAp
             /\ SubSeq(sess.trace, 1, Len(c.trace)) = c.trace
             /\ \A i \in Len(c.trace) + 1 .. Len(sess.trace) : sess.trace[i].ev = "tcsetattr"
             /\ ~sess.ub

\* an exit with a session open and bytes in its buffer, ap_cleanup registered
\* twice (the session had been cleaned up by hand and opened again)
C12_Witness ==
    /\ apcall.op = "exit"
    /\ apcall.pre.global_ap # NoAp
    /\ apcall.pre.aps[apcall.pre.global_ap].buf # <<>>
    /\ Cardinality({i \in DOMAIN sess.atexits : sess.atexits[i] = "ap_cleanup"}) = 2
    /\ sess.global_ap = NoAp

\* ---- drawing on an open session ----

\* the strings a drawing scenario buffers, and the strings it lets the
\* terminal receive before it stops writing
MaxDrawBuf == 3
MaxDrawOut == 2

\* a session has been opened on a terminal
InitDraw ==
    /\ sess = ap_open(NoSess, TRUE, TRUE, TRUE).s
    /\ apcall = NoApCall
    /\ aphist = [NoHist EXCEPT !.opened = TRUE, !.captured = NoSess.termios]
    /\ rec = NoRec
    /\ flt = NoFlt
    /\ qs = <<>>
    /\ wr = NoWrite
    /\ heap = EmptyHeap
    /\ b = [x \in Bufs |-> ZeroBuf]
    /\ sl = ZeroBuf
    /\ call = NoCall

ApHideCursor ==
    /\ Len(sess.aps[sess.global_ap].buf) < MaxDrawBuf
    /\ sess' = ap_hide_cursor(sess, sess.global_ap)
    /\ apcall' = ApCalled("ap_hide_cursor", 0)
    /\ aphist' = Drawn(<<"ESC[?25l">>)
    /\ UNCHANGED <<bufVars, qs, wrVars, rec, flt>>

ApFlush ==
    /\ Len(sess.tty_out) < MaxDrawOut
    /\ sess' = ap_flush(sess, sess.global_ap)
    /\ apcall' = ApCalled("ap_flush", 0)
    /\ aphist' = [aphist EXCEPT !.started = FALSE, !.prims = <<>>]
    /\ UNCHANGED <<bufVars, qs, wrVars, rec, flt>>

NextDraw ==
    \/ ApClearScreenWithin(MaxDrawBuf, MaxDrawOut)
    \/ ApHideCursor
    \/ ApStart
    \/ ApEndWithin(MaxDrawOut)
    \/ ApFlush

SpecDraw == InitDraw /\ [][NextDraw]_vars

\* the session buffer of the open session of s
SessBuf(s) == s.aps[s.global_ap].buf

\* C15: the first ap_clear_screen of a session emits ESC[2J ESC[H and every
\* later one ESC[H ESC[0J, whatever the mix of modes; an immediate clear writes
\* its sequence to the descriptor and leaves the session buffer as it was, a
\* buffered clear appends it to the session buffer and writes nothing.
C15_ClearScreen ==
    [][apcall'.op = "ap_clear_screen" =>
          LET what == IF aphist.cleared THEN "ESC[HESC[0J" ELSE "ESC[2JESC[H"
          IN IF apcall'.ret = 1
             THEN /\ sess'.tty_out = Append(sess.tty_out, what)
                  /\ SessBuf(sess') = SessBuf(sess)
             ELSE /\ SessBuf(sess') = Append(SessBuf(sess), what)
                  /\ sess'.tty_out = sess.tty_out]_vars

\* a buffered clear that is the third of its session, after an immediate first
\* clear and a buffered second one
C15_Witness ==
    /\ apcall.op = "ap_clear_screen"
    /\ apcall.ret = 0
    /\ sess.tty_out = <<"ESC[2JESC[H">>
    /\ SessBuf(sess) = <<"ESC[HESC[0J", "ESC[HESC[0J">>

\* C16: ap_start leaves the session buffer holding exactly ESC[?2026h and writes
\* nothing; ap_end writes the buffer followed by ESC[?2026l and leaves it
\* empty, so that after an ap_start the bytes it writes are ESC[?2026h, the
\* strings of the buffered primitives called since, in call order, and
\* ESC[?2026l; ap_flush writes the buffer as it is and leaves it empty.
C16_SyncEnvelope ==
    [][/\ apcall'.op = "ap_start" =>
             /\ SessBuf(sess') = <<"ESC[?2026h">>
             /\ sess'.tty_out = sess.tty_out
       /\ apcall'.op = "ap_end" =>
             /\ sess'.tty_out = sess.tty_out \o SessBuf(sess) \o <<"ESC[?2026l">>
             /\ SessBuf(sess') = <<>>
             /\ aphist.started =>
                   sess'.tty_out =
                       sess.tty_out \o <<"ESC[?2026h">> \o aphist.prims \o <<"ESC[?2026l">>
       /\ apcall'.op = "ap_flush" =>
             /\ sess'.tty_out = sess.tty_out \o SessBuf(sess)
             /\ SessBuf(sess') = <<>>]_vars

\* an ap_end that has written a batch of two primitives between the markers,
\* after an earlier ap_start whose marker was flushed
C16_Witness ==
    /\ apcall.op = "ap_end"
    /\ SessBuf(sess) = <<>>
    /\ sess.tty_out = <<"ESC[?2026h", "ESC[?2026h", "ESC[2JESC[H", "ESC[?25l", "ESC[?2026l">>

\* ---- numbers and cursor positions buffered on an open session ----

\* the strings in the buffer beyond which the scenario appends no more
MaxItoaBuf == 2

\* the arguments of ap_itoa: zero, the ends of the range of int, and numbers of
\* one digit and more, with zeros inside and at the end, of either sign
ItoaInputs ==
    {INT_MIN, INT_MIN + 1, -1000000000, -120, -10, -9, -1,
     0, 1, 9, 10, 100, 105, 1000000000, INT_MAX - 1, INT_MAX}

\* the coordinates given to ap_move_to; x + 1 and y + 1 are computed in int,
\* and the calls made are those in which they do not overflow
CoordInputs == {INT_MIN, -2, -1, 0, 8, 9, 79, INT_MAX - 1}

ApItoa ==
    \E n \in ItoaInputs :
        /\ Len(sess.aps[sess.global_ap].buf) < MaxItoaBuf
        /\ sess' = ap_itoa(sess, sess.global_ap, n)
        /\ apcall' = ApCalled("ap_itoa", n)
        /\ aphist' = aphist
        /\ UNCHANGED <<bufVars, qs, wrVars, rec, flt>>

ApMoveTo ==
    \E x \in CoordInputs, y \in CoordInputs :
        /\ Len(sess.aps[sess.global_ap].buf) < MaxItoaBuf
        /\ x < INT_MAX /\ y < INT_MAX
        /\ sess' = ap_move_to(sess, sess.global_ap, x, y)
        /\ apcall' = ApCalled("ap_move_to", <<x, y>>)
        /\ aphist' = aphist
        /\ UNCHANGED <<bufVars, qs, wrVars, rec, flt>>

NextItoa ==
    \/ ApItoa
    \/ ApMoveTo

SpecItoa == InitDraw /\ [][NextItoa]_vars

RECURSIVE DecNat(_)
\* the decimal text of a natural number, most significant digit first, without
\* leading zeros
DecNat(m) == IF m < 10 THEN DigitChar(m) ELSE DecNat(m \div 10) \o DigitChar(m % 10)

\* the canonical decimal text of the integer n: for a negative n a minus sign
\* and the text of its magnitude, whose last digit is d and whose other digits
\* are those of hi (the magnitude of INT_MIN is not an int)
Dec(n) ==
    IF n >= 0
    THEN DecNat(n)
    ELSE LET d == (10 - (n % 10)) % 10
             hi == -((n + d) \div 10)
         IN "-" \o (IF hi = 0 THEN "" ELSE DecNat(hi)) \o DigitChar(d)

\* C17: ap_itoa appends the canonical decimal text of its argument, for every
\* int including zero, the negative ones and the most negative one, and
\* ap_move_to(x, y) appends ESC [ dec(y+1) ; dec(x+1) H; neither writes.
C17_MoveTo ==
    [][/\ apcall'.op = "ap_itoa" =>
             /\ SessBuf(sess') = Append(SessBuf(sess), Dec(apcall'.ret))
             /\ sess'.tty_out = sess.tty_out
       /\ apcall'.op = "ap_move_to" =>
             LET x == apcall'.ret[1]
                 y == apcall'.ret[2]
             IN /\ SessBuf(sess') =
                       SessBuf(sess) \o <<"ESC[", Dec(y + 1), ";", Dec(x + 1), "H">>
                /\ sess'.tty_out = sess.tty_out]_vars

\* the most negative int buffered by ap_itoa, then a move to column 80 of row 10
C17_Witness ==
    /\ apcall.op = "ap_move_to"
    /\ apcall.ret = <<79, 9>>
    /\ SessBuf(sess) = <<"-2147483648", "ESC[", "10", ";", "80", "H">>

\* the cached size of the open session of s is the terminal's size
SizeCached(s) ==
    LET ap == s.aps[s.global_ap]
    IN /\ ap.w = s.winsize.ws_col
       /\ ap.h = s.winsize.ws_row
       /\ ap.xpixel = s.winsize.ws_xpixel
       /\ ap.ypixel = s.winsize.ws_ypixel

\* C13: when handle_winch's size query succeeds, the four cached fields become
\* the terminal's and the dirty flag is set if at least one of the four
\* differed from the cache, and if none differed nothing changes at all.
C13_ResizeFourWay ==
    (apcall.op = "handle_winch" /\ apcall.ret = 0 /\ apcall.pre.global_ap # NoAp) =>
        LET pre == apcall.pre
            a == pre.global_ap
        IN IF SizeCached(pre)
           THEN sess = pre
           ELSE /\ SizeCached(sess)
                /\ sess.aps[a].resized
                /\ sess = [pre EXCEPT !.aps[a] = sess.aps[a]]
                /\ [sess.aps[a] EXCEPT !.h = pre.aps[a].h, !.w = pre.aps[a].w,
                                       !.xpixel = pre.aps[a].xpixel, !.ypixel = pre.aps[a].ypixel,
                                       !.resized = pre.aps[a].resized]
                   = pre.aps[a]

\* a successful query after a change of the pixel width alone raises the flag
\* that the program had reset
C13_Witness ==
    /\ apcall.op = "handle_winch"
    /\ apcall.ret = 0
    /\ apcall.pre.global_ap # NoAp
    /\ LET ap == apcall.pre.aps[apcall.pre.global_ap]
           ws == apcall.pre.winsize
       IN /\ ~ap.resized
          /\ ap.w = ws.ws_col /\ ap.h = ws.ws_row /\ ap.ypixel = ws.ws_ypixel
          /\ ap.xpixel # ws.ws_xpixel
    /\ sess.aps[sess.global_ap].resized
    /\ SizeCached(sess)

\* C14: when handle_winch's size query fails, no cached field and no dirty flag
\* is modified (nothing of the state is).
C14_QueryFailureKeepsSize ==
    (apcall.op = "handle_winch" /\ apcall.ret = -1) => sess = apcall.pre

\* a failed query on a session whose cached size is stale and whose flag is down
C14_Witness ==
    /\ apcall.op = "handle_winch"
    /\ apcall.ret = -1
    /\ sess.global_ap # NoAp
    /\ ~SizeCached(sess)
    /\ ~sess.aps[sess.global_ap].resized
    /\ sess = apcall.pre

\* ---- the recorder's loop, with a child that writes and ends and a user who
\* types and closes standard input ----

\* main has opened the session and spawned the child on a pseudo-terminal of
\* the session's size
InitRecOf(runs) ==
    /\ sess = ap_open(NoSess, TRUE, TRUE, TRUE).s
    /\ \E run \in runs :
          rec = [NoRec EXCEPT !.pc = "loop", !.script = run.script, !.user = run.user,
                              !.hud = run.hud, !.hud_ok = run.hud, !.ofile = run.ofile,
                              !.child.state = "running",
                              !.pty_ws = NoSess.winsize]
    /\ flt = NoFlt
    /\ apcall = NoApCall
    /\ aphist = [NoHist EXCEPT !.opened = TRUE, !.captured = NoSess.termios]
    /\ qs = <<>>
    /\ wr = NoWrite
    /\ heap = EmptyHeap
    /\ b = [x \in Bufs |-> ZeroBuf]
    /\ sl = ZeroBuf
    /\ call = NoCall

InitRec == InitRecOf(RecRuns)

\* one iteration of the loop of main
RecLoop ==
    /\ rec.pc = "loop"
    /\ ~rec.done /\ ~rec.brk
    /\ \E sel \in Selects(rec), tiocok \in BOOLEAN :
         \E st1 \in {rec_top(rec, sess, sel, tiocok)} :
           \E si \in StdinOutcomes(st1) :
             \E st2 \in {rec_stdin(st1, si)} :
               \E po \in PtyOutcomes(st2) :
                 \E st3 \in {rec_pty(st2, po)} :
                   \E st4 \in {rec_locals(rec_rest(st3))} :
                     \E st5 \in {IF st4.r.pc = "return" THEN rec_return(st4, 1) ELSE st4} :
                        /\ tiocok \/ sess.aps[sess.global_ap].resized
                        /\ rec' = st5.r
                        /\ sess' = st5.s
    /\ apcall' = ApCalled("rec_loop", 0)
    /\ aphist' = aphist
    /\ UNCHANGED <<bufVars, qs, wrVars, flt>>

\* main after the loop: close(fd), free_buf(&quoted), return ourStatus
RecReturn ==
    /\ rec.pc = "loop"
    /\ rec.done \/ rec.brk
    /\ LET st == rec_return([r |-> rec, s |-> sess], rec.ourStatus)
       IN rec' = st.r /\ sess' = st.s
    /\ apcall' = ApCalled("rec_return", 0)
    /\ aphist' = aphist
    /\ UNCHANGED <<bufVars, qs, wrVars, flt>>

\* the recorder is in its loop; what its surroundings do once the loop is over
\* has no effect on what is left of main
Looping == rec.pc = "loop" /\ ~rec.done /\ ~rec.brk

\* the child writes its next line on its terminal
ChildWrite ==
    /\ Looping
    /\ rec.child.state = "running"
    /\ rec.sent < Len(rec.script)
    /\ rec' = [rec EXCEPT !.pty_out = @ \o rec.script[rec.sent + 1], !.sent = @ + 1]
    /\ UNCHANGED <<bufVars, qs, wrVars, apVars, flt>>

\* the child ends: it exits once it has written its lines, or fails or is
\* killed at any time; its descriptors are closed first
ChildExit ==
    \E end \in ChildEnds :
        /\ Looping
        /\ rec.child.state = "running"
        /\ (end.how = "exit" /\ end.code = 0) => rec.sent = Len(rec.script)
        /\ rec' = [rec EXCEPT !.child = [state |-> "closed", how |-> end.how, code |-> end.code]]
        /\ UNCHANGED <<bufVars, qs, wrVars, apVars, flt>>

\* the child that has ended becomes a zombie, which waitpid reports
ChildZombie ==
    /\ Looping
    /\ rec.child.state = "closed"
    /\ rec' = [rec EXCEPT !.child.state = "zombie"]
    /\ UNCHANGED <<bufVars, qs, wrVars, apVars, flt>>

\* the user types a byte, also after an end of stream
StdinType ==
    /\ Looping
    /\ rec.user
    /\ rec.typed < MaxTyped
    /\ rec' = [rec EXCEPT !.stdin = Append(@, 65), !.typed = @ + 1]
    /\ UNCHANGED <<bufVars, qs, wrVars, apVars, flt>>

\* standard input reaches its end
StdinEof ==
    /\ Looping
    /\ ~rec.stdin_eof
    /\ rec' = [rec EXCEPT !.stdin_eof = TRUE]
    /\ UNCHANGED <<bufVars, qs, wrVars, apVars, flt>>

NextRec ==
    \/ RecLoop
    \/ RecReturn
    \/ ChildWrite
    \/ ChildExit
    \/ ChildZombie
    \/ StdinType
    \/ StdinEof

SpecRec == InitRec /\ [][NextRec]_vars

\* the recorder with a user at the keyboard and a child that writes an escape
\* sequence and a UTF-8 byte, with --hud and without
InitHud == InitRecOf(HudRuns)

SpecHud == InitHud /\ [][NextRec]_vars

\* the child has ended the way end says
ChildEnded(how, nonzero) ==
    /\ rec.child.state \in {"closed", "zombie", "reaped"}
    /\ rec.child.how = how
    /\ (rec.child.code # 0) = nonzero

\* C18 as stated: whichever way the loop ends, the recorder's exit status is 0
\* only if the child exited normally with status 0, it is 1 if the child exited
\* normally with a nonzero status and 2 if the child was killed by a signal.
C18_ExitStatus ==
    rec.pc = "returned" =>
        /\ rec.status = 0 => ChildEnded("exit", FALSE)
        /\ ChildEnded("exit", TRUE) => rec.status = 1
        /\ ChildEnded("signal", TRUE) => rec.status = 2

\* C19: once a read of standard input has returned zero bytes, the
\* stdin-closed state is never left, and in every later iteration of the loop
\* standard input is not in the watched set and is not read, whatever the
\* descriptor holds.
C19_StdinEofOneWay ==
    [][/\ rec.stdin_closed => rec'.stdin_closed
       /\ rec'.eof_seen => rec'.stdin_closed
       /\ (rec.eof_seen /\ RecLoop) => (~rec'.watched /\ ~rec'.stdin_read)]_vars

\* after the end of standard input the user has typed a byte, and an iteration
\* of the loop that forwarded child output has left it unread
C19_Witness ==
    /\ rec.eof_seen
    /\ rec.stdin_closed
    /\ rec.stdin # <<>>
    /\ rec.iodone
    /\ ~rec.watched
    /\ ~rec.stdin_read

\* p is a prefix of q
IsPrefix(p, q) == Len(p) <= Len(q) /\ SubSeq(q, 1, Len(p)) = p

\* all that the child of the Makefile's example writes
ExampleBytes == ChildScript[1] \o ChildScript[2]

\* the run is the Makefile's example, it is over, and the child has exited 0
ExampleRunOver ==
    /\ rec.pc = "returned"
    /\ rec.ofile
    /\ rec.script = ChildScript
    /\ ChildEnded("exit", FALSE)

\* C20 as stated: with --output, between iterations the output file holds
\* exactly the bytes read from the pseudo-terminal so far, which are the bytes
\* written to standard output; and after the Makefile's example has run the
\* file holds the child's "hi" and "bye" and the recorder has exited 0.
C20_FileIsPtyOutput ==
    /\ rec.ofile => (rec.file = rec.pty_read /\ rec.stdout = rec.pty_read)
    /\ ExampleRunOver => (rec.file = ExampleBytes /\ rec.status = 0)

\* C21: a write of the recorder that fails (not all bytes of the chunk just
\* read were written, whether none or some of them) ends the main loop in that
\* iteration, in either direction: after an iteration in which a write failed
\* the loop is over, so that no further chunk is forwarded.
C21_WriteFailureEndsLoop ==
    rec.wfail => ~Looping

\* the chunk ends on an incomplete boundary: its last byte is >= 0x80, or it
\* holds an escape byte and no ASCII letter follows the last one
IncompleteEnd(c) ==
    /\ c # <<>>
    /\ \/ c[Len(c)] >= 128
       \/ \E i \in 1..Len(c) :
             /\ c[i] = 27
             /\ \A j \in (i + 1)..Len(c) :
                   /\ c[j] # 27
                   /\ ~(c[j] \in 65..90 \/ c[j] \in 97..122)

\* C22: the HUD is drawn in an iteration of the recorder's loop only if I/O was
\* done in that iteration and HUD mode is on, and never when the chunk of child
\* output read in that iteration ends on an incomplete boundary (an iteration
\* that read no chunk has the empty chunk, which is complete).
C22_HudGating ==
    rec.hud_drawn => (rec.iodone /\ rec.hud /\ ~IncompleteEnd(rec.chunk))

\* the HUD is drawn after the letter that completes an escape sequence, whose
\* escape byte came alone in an earlier chunk
C22_Witness ==
    /\ rec.hud_drawn
    /\ rec.chunk = <<77>>
    /\ rec.pty_read = <<27, 77>>

-----------------------------------------------------------------------------
(* The recorder up to execvp: main opens the session and forks; the model   *)
(* follows the child, which starts with a copy of the parent's memory (the   *)
(* session, the saved terminal settings, the registered exit routines) and   *)
(* has the pseudo-terminal's side as its terminal.                           *)

\* ap_open in main: the run ends with status 1 if it fails
RecOpen ==
    /\ rec.pc = "start"
    /\ sess.global_ap = NoAp
    /\ ApOpen

\* the user has set the terminal up before the run
RecStty ==
    /\ rec.pc = "start"
    /\ sess.global_ap = NoAp
    /\ Stty

\* the terminal has the size its window has before the run
RecResize ==
    /\ rec.pc = "start"
    /\ sess.global_ap = NoAp
    /\ TtyResizeTo(WinSizes)

\* forkpty succeeds: the child has the parent's memory and a new terminal, with
\* the window size of the session, on which nothing is written yet
Forkpty ==
    /\ rec.pc = "start"
    /\ sess.global_ap # NoAp
    /\ LET ap == sess.aps[sess.global_ap]
       IN sess' = [sess EXCEPT !.tty_out = <<>>, !.trace = <<>>,
                               !.termios = NoSess.termios,
                               !.winsize = [ws_row |-> ap.h, ws_col |-> ap.w,
                                            ws_xpixel |-> ap.xpixel, ws_ypixel |-> ap.ypixel]]
    /\ rec' = [rec EXCEPT !.pc = "child", !.child.state = "self"]
    /\ apcall' = ApCalled("forkpty", 0)
    /\ aphist' = aphist
    /\ UNCHANGED <<bufVars, qs, wrVars, flt>>

\* execvp succeeds: the program replaces the child's memory, and with it the
\* session and the registered exit routines
ExecvpOk ==
    /\ rec.pc = "child"
    /\ sess' = [sess EXCEPT !.atexits = <<>>, !.global_ap = NoAp]
    /\ rec' = [rec EXCEPT !.pc = "exec"]
    /\ apcall' = ApCalled("execvp", 0)
    /\ aphist' = aphist
    /\ UNCHANGED <<bufVars, qs, wrVars, flt>>

\* execvp fails: main returns 1 in the child
ExecvpFail ==
    /\ rec.pc = "child"
    /\ LET st == rec_return([r |-> rec, s |-> sess], 1)
       IN rec' = st.r /\ sess' = st.s
    /\ apcall' = ApCalled("execvp", -1)
    /\ aphist' = aphist
    /\ UNCHANGED <<bufVars, qs, wrVars, flt>>

NextExec == RecStty \/ RecResize \/ RecOpen \/ Forkpty \/ ExecvpOk \/ ExecvpFail

SpecExec == InitExit /\ [][NextExec]_vars

\* C23: when execvp fails in the forked child, the child exits with a failure
\* status and runs none of the cleanup registered for the exit of the process:
\* it writes no escape sequence on its terminal and does not set the
\* terminal's configuration.
C23_ExecFailureSkipsCleanup ==
    (rec.pc = "returned" /\ rec.child.state = "self") =>
        /\ rec.status # 0
        /\ sess.tty_out = <<>>
        /\ sess.trace = <<>>

-----------------------------------------------------------------------------
(* The filter scenarios: main's loop on an input made of known sequences,   *)
(* read in chunks of every size, in both modes and both builds              *)

InitFltOf(items, limits) ==
    /\ \E its \in SeqsUpTo(items, MaxItems), mode \in {FILTER_DEFAULT, FILTER_ALL},
          debug \in BOOLEAN, limit \in limits :
          flt = [NoFlt EXCEPT !.pc = "loop", !.mode = mode, !.debug = debug,
                              !.frames_limit = limit, !.items = its,
                              !.stream = Flatten(its)]
    /\ sess = NoSess
    /\ apcall = NoApCall
    /\ aphist = NoHist
    /\ rec = NoRec
    /\ qs = <<>>
    /\ wr = NoWrite
    /\ heap = EmptyHeap
    /\ b = [x \in Bufs |-> ZeroBuf]
    /\ sl = ZeroBuf
    /\ call = NoCall

\* one iteration of the do-while loop of main
FilterLoop ==
    /\ flt.pc = "loop"
    /\ \E n \in ReadCounts(flt), wrok \in BOOLEAN :
          flt' = IF n < 0 THEN [flt EXCEPT !.pc = "returned", !.status = 1]
                 ELSE IF n = 0 THEN [flt EXCEPT !.pc = "after"]
                 ELSE flt_write(flt_pass(flt, n), wrok)
    /\ UNCHANGED <<bufVars, qs, wrVars, apVars, rec>>

\* main after the loop: what is left in inputbuf is logged as an unterminated
\* sequence if frames_count < frames_limit, the buffers are freed and main
\* returns 0
FilterReturn ==
    /\ flt.pc = "after"
    /\ flt' = [flt EXCEPT !.pc = "returned", !.status = 0,
                          !.unterminated = /\ flt.frames_count < flt.frames_limit
                                           /\ flt.input # <<>>]
    /\ UNCHANGED <<bufVars, qs, wrVars, apVars, rec>>

NextFilter == FilterLoop \/ FilterReturn

\* inputs made of the sequences the filter has a case for, without a limit
InitFilter == InitFltOf(KnownItems, {-1})

SpecFilter == InitFilter /\ [][NextFilter]_vars

\* inputs made of all the sequences
InitFilterAll == InitFltOf(AllItems, {-1})

SpecFilterAll == InitFilterAll /\ [][NextFilter]_vars

\* complete inputs, with no frame limit or a limit of one or two frames
InitLimit == InitFltOf(LimitItems, {-1, 1, 2})

SpecLimit == InitLimit /\ [][NextFilter]_vars

\* inputs of every kind, with no frame limit or a limit of one frame
InitChunk == InitFltOf(ChunkItems, {-1, 1})

SpecChunk == InitChunk /\ [][NextFilter]_vars

\* the last pass: the text before the first escape byte of its input, the
\* bytes from that escape byte on, and whether there are enough of them for the
\* sequence to be looked at
PassEsc == FirstEsc(flt.pass_input)
PassText == SubSeq(flt.pass_input, 1, PassEsc - 1)
PassSeq == SubSeq(flt.pass_input, PassEsc, Len(flt.pass_input))
PassLooksAt(second) ==
    /\ flt.reads > 0
    /\ PassEsc # 0
    /\ Len(PassSeq) >= 3
    /\ PassSeq[2] \in second

\* the last pass has done what a pass does on the input that follows the first
\* n bytes of the sequence, after putting out the text and the bytes kept
PassGoesOnAfter(n, kept) ==
    LET r == filter([flt EXCEPT !.input = SubSeq(PassSeq, n + 1, Len(PassSeq)),
                               !.output = <<>>, !.frames_count = flt.pass_frames,
                               !.logged = FALSE], flt.mode)
    IN /\ flt.pass_output = PassText \o kept \o r.output
       /\ flt.input = r.input
       /\ flt.frames_count = r.frames_count
       /\ flt.ret = r.ret
       /\ flt.logged = r.logged

\* C24: a pass on an input without an escape byte, in either mode, moves all
\* the input bytes to the output unchanged and in order, leaves the input
\* empty and reports no frame boundary (the pass returns true and the frame
\* counter is unchanged).
C24_PlainTextPassthrough ==
    (flt.reads > 0 /\ PassEsc = 0) =>
        /\ flt.pass_output = flt.pass_input
        /\ flt.input = <<>>
        /\ flt.ret
        /\ flt.frames_count = flt.pass_frames
        /\ ~flt.logged

\* a pass has moved the three bytes "abb" to the output in all-strip mode
C24_Witness ==
    /\ flt.reads > 0
    /\ flt.mode = FILTER_ALL
    /\ flt.pass_input = <<97, 98, 98>>
    /\ flt.pass_output = <<97, 98, 98>>
    /\ flt.input = <<>>

\* the frames of a stream: its items that clear the screen, the only items
\* that are CSI sequences with final byte 'J'
FramesOf(items) == Cardinality({i \in DOMAIN items : items[i] = CsiClear})

\* C25: frame boundaries do not depend on how the stream is cut into chunks:
\* when the filter has handled a whole stream of sequences the filter knows,
\* without a frame limit, it has seen as many frame boundaries as the stream
\* has CSI sequences with final byte 'J', whatever the chunks were.
C25_FramesIndependentOfChunks ==
    (/\ flt.pc = "returned"
     /\ flt.status = 0
     /\ flt.frames_limit <= 0
     /\ \A i \in DOMAIN flt.items : flt.items[i] # EscReset) =>
        flt.frames_count = FramesOf(flt.items)

\* the CSI sequence at the head of the last pass, when it is complete
PassCsi == SubSeq(PassSeq, 1, CsiEnd(PassSeq))

\* the CSI sequences the filter is to discard: all of them in all-strip mode;
\* in default mode those with final byte 'n', 'c' or 'u' and the private ones
\* (first parameter byte '?') other than synchronized output on and off
CsiDiscarded(csi, mode) ==
    \/ mode = FILTER_ALL
    \/ csi[Len(csi)] \in {110, 99, 117}
    \/ csi[3] = 63 /\ csi \notin {CsiSyncOn, CsiSyncOff}

\* C26: a pass that meets a complete CSI sequence (other than a frame
\* boundary) discards it in all-strip mode; in default mode it discards the
\* sequences with final byte 'n', 'c' or 'u' and the private ones except
\* ESC[?2026h and ESC[?2026l, copies every other one unchanged to the output,
\* and goes on with the bytes after the sequence.
C26_CsiDisposition ==
    (/\ PassLooksAt({91})
     /\ CsiEnd(PassSeq) # 0
     /\ PassSeq[CsiEnd(PassSeq)] # 74) =>
        PassGoesOnAfter(Len(PassCsi),
                        IF CsiDiscarded(PassCsi, flt.mode) THEN <<>> ELSE PassCsi)

\* C27: keypad and character-set sequences are discarded in both modes: a
\* pass that meets ESC > or ESC = removes exactly those 2 bytes, one that
\* meets ESC ( or ESC ) removes exactly 3 bytes, nothing of the sequence goes
\* to the output, no error is reported, and the pass goes on with the bytes
\* that follow.
C27_KeypadCharsetDiscarded ==
    /\ PassLooksAt({62, 61}) => (PassGoesOnAfter(2, <<>>) /\ ~flt.logged)
    /\ PassLooksAt({40, 41}) => (PassGoesOnAfter(3, <<>>) /\ ~flt.logged)

\* C28: a pass that meets ESC 7 or ESC 8 copies the 2 bytes unchanged to the
\* output in default mode and discards them in all-strip mode; in both modes
\* exactly those 2 bytes leave the input and the pass goes on with the bytes
\* that follow.
C28_SaveRestoreCursor ==
    PassLooksAt({55, 56}) =>
        PassGoesOnAfter(2, IF flt.mode = FILTER_DEFAULT
                           THEN SubSeq(PassSeq, 1, 2) ELSE <<>>)

\* a pass in default mode has copied ESC 7 and the text after it
C28_Witness ==
    /\ flt.reads > 0
    /\ flt.mode = FILTER_DEFAULT
    /\ flt.pass_input = <<27, 55, 97>>
    /\ flt.pass_output = <<27, 55, 97>>
    /\ flt.input = <<>>

\* where a string sequence ends: the index of the first bell byte (when a bell
\* ends it) or of the backslash of the first escape-backslash pair, from the
\* third byte on; 0 when the sequence is not terminated
StringEnd(s, bel) ==
    LET ends == {i \in 3..Len(s) : \/ bel /\ s[i] = 7
                                   \/ i > 3 /\ s[i - 1] = 27 /\ s[i] = 92}
    IN IF ends = {} THEN 0 ELSE CHOOSE i \in ends : \A j \in ends : i <= j

\* the last pass has stopped at the sequence for want of data
PassNeedsMoreData ==
    /\ flt.ret
    /\ ~flt.logged
    /\ flt.pass_output = PassText
    /\ flt.input = PassSeq
    /\ flt.frames_count = flt.pass_frames

\* C29: an OSC sequence (ESC ]) ends at the first bell byte or
\* escape-backslash pair, a DCS sequence (ESC P) at the first
\* escape-backslash pair; a pass that meets one with its terminator buffered
\* removes all of it, terminator included, puts nothing of it out and goes on
\* with the bytes that follow, in both modes; a pass that meets one without
\* its terminator asks for more data and consumes nothing of it.
C29_OscDcsDiscarded ==
    /\ PassLooksAt({93}) =>
          IF StringEnd(PassSeq, TRUE) # 0
          THEN PassGoesOnAfter(StringEnd(PassSeq, TRUE), <<>>) /\ ~flt.logged
          ELSE PassNeedsMoreData
    /\ PassLooksAt({80}) =>
          IF StringEnd(PassSeq, FALSE) # 0
          THEN PassGoesOnAfter(StringEnd(PassSeq, FALSE), <<>>) /\ ~flt.logged
          ELSE PassNeedsMoreData

\* the bytes that introduce a sequence when they follow an escape byte:
\* > = 7 8 ( ) [ ] P
Introducers == {62, 61, 55, 56, 40, 41, 91, 93, 80}

\* C30: a pass that meets an escape byte followed by a byte that introduces
\* no sequence reports an unrecoverable condition, and main's loop stops: no
\* input is read or filtered after that pass, in every build.
C30_UnknownSequenceStops ==
    /\ PassLooksAt((0..255) \ Introducers) => (flt.logged /\ ~flt.ret)
    /\ (\A i \in DOMAIN flt.items : flt.items[i] \in KnownItems \cup {EscReset}) =>
          flt.reads_after_error = 0

\* processing stopped at the configured frame limit
StoppedAtLimit == flt.frames_limit > 0 /\ flt.frames_count >= flt.frames_limit

\* C31: when the input ends while the input buffer still holds an escape
\* sequence that is not complete, main reports the unterminated sequence,
\* with or without a frame limit configured, except when processing stopped
\* at the configured frame limit: then what is left is not reported.
C31_TruncationReported ==
    (flt.pc = "returned" /\ flt.status = 0) =>
        (flt.unterminated <=> (flt.input # <<>> /\ ~StoppedAtLimit))

\* the index in items of the n-th sequence that clears the screen, 0 if there
\* are fewer than n
NthFrame(items, n) ==
    LET at == {i \in DOMAIN items :
                  items[i] = CsiClear /\ FramesOf(SubSeq(items, 1, i)) = n}
    IN IF at = {} THEN 0 ELSE CHOOSE i \in at : TRUE

\* what one pass without a frame limit puts out for the given bytes
OutputOf(bytes, mode) ==
    filter([NoFlt EXCEPT !.input = bytes, !.mode = mode, !.debug = flt.debug], mode).output

\* C32: with a frame limit n > 0 the frame counter counts the clear-screen
\* sequences met and never exceeds n; once it has reached n the loop is over
\* (no further chunk is read), and nothing that follows the n-th clear-screen
\* sequence in the input is ever written: what was written comes from the
\* input up to that sequence.
C32_FrameLimit ==
    flt.frames_limit > 0 =>
        /\ flt.frames_count <= flt.frames_limit
        /\ flt.frames_count = flt.frames_limit => flt.pc # "loop"
        /\ (flt.pc = "returned" /\ flt.status = 0) =>
              flt.frames_count = Least(FramesOf(flt.items), flt.frames_limit)
        /\ NthFrame(flt.items, flt.frames_limit) # 0 =>
              IsPrefix(flt.stdout \o flt.output,
                       OutputOf(Flatten(SubSeq(flt.items, 1,
                                               NthFrame(flt.items, flt.frames_limit))),
                                flt.mode))

\* a run with a limit of one frame has stopped at a clear-screen sequence
\* that is followed by text: the text was read with it and never written
C32_Witness ==
    /\ flt.frames_limit = 1
    /\ flt.items = <<CsiClear, TextA>>
    /\ flt.pc = "returned"
    /\ flt.status = 0
    /\ flt.frames_count = 1
    /\ flt.input = CsiClear \o TextA
    /\ flt.stdout = <<>>

\* the whole input filtered in one pass, as when one read returns all of it
WholeInput ==
    filter([NoFlt EXCEPT !.input = Flatten(flt.items), !.mode = flt.mode,
                         !.frames_limit = flt.frames_limit], flt.mode)

TextOf(items) ==
    Flatten(SelectSeq(items, LAMBDA it : it[1] # 27))

IsSuffix(q, s) == Len(q) <= Len(s) /\ SubSeq(s, Len(s) - Len(q) + 1, Len(s)) = q

\* the bytes begin with an escape byte whose sequence cannot be decided yet:
\* fewer than 3 bytes, or a CSI sequence without its final byte
Undecided(s) ==
    /\ s # <<>>
    /\ s[1] = 27
    /\ \/ Len(s) < 3
       \/ s[2] = 91 /\ CsiEnd(s) = 0

\* what is to be put out for a run of complete items, byte by byte: text is
\* kept; ESC 7, ESC 8 and CSI sequences are kept in default mode, except the
\* private CSI sequences, and dropped in all-strip mode
RECURSIVE Strip(_, _)
Strip(s, mode) ==
    IF s = <<>> THEN <<>>
    ELSE IF s[1] # 27 THEN <<s[1]>> \o Strip(Tail(s), mode)
    ELSE LET n == IF s[2] \in {55, 56} THEN 2 ELSE CsiEnd(s)
             keep == mode = FILTER_DEFAULT /\ (s[2] = 91 => s[3] # 63)
         IN (IF keep THEN SubSeq(s, 1, n) ELSE <<>>) \o Strip(SubSeq(s, n + 1, Len(s)), mode)

\* the bytes the last pass removed from the input
PassRemoved == SubSeq(flt.pass_input, 1, Len(flt.pass_input) - Len(flt.input))

\* C38: after a pass that reports neither an error nor a frame-limit stop the
\* input buffer is empty or begins with an escape byte whose sequence is not
\* complete in the buffer; what the pass removed is the head of its input,
\* and each removed byte either went to the output in its order or belonged
\* to a discarded sequence; and the pass made no more calls than one plus the
\* number of bytes it removed.
C38_PassPostcondition ==
    (flt.reads > 0 /\ flt.ret /\ ~flt.logged) =>
        /\ flt.input = <<>> \/ Undecided(flt.input)
        /\ IsSuffix(flt.input, flt.pass_input)
        /\ flt.pass_output = Strip(PassRemoved, flt.mode)
        /\ flt.steps <= 1 + Len(PassRemoved)

\* a pass in default mode on ESC 7 and the first bytes of a CSI sequence:
\* ESC 7 went out, the cut sequence is left, in two calls of filter
C38_Witness ==
    /\ flt.reads > 0
    /\ flt.ret
    /\ flt.mode = FILTER_DEFAULT
    /\ flt.pass_input = EscSave \o CsiCut
    /\ flt.pass_output = EscSave
    /\ flt.input = CsiCut
    /\ flt.steps = 2

\* C36: time_init is invoked at most once in the life of the process, over
\* any sequence of ap_open calls, failed and retried ones included, and it
\* has been invoked when a session is open.
C36_TimeInitOnce ==
    /\ sess.time_inits <= 1
    /\ sess.global_ap # NoAp => sess.time_inits >= 1

\* C37: the dirty flag is set by resize signals only: when ap_open has just
\* returned a session, before any resize signal, the flag of the session is
\* clear.
C37_CleanAfterOpen ==
    (apcall.op = "ap_open" /\ apcall.ret # NoAp) => ~sess.aps[apcall.ret].resized

-----------------------------------------------------------------------------
(* The resize scenario of the recorder: the top of main's loop statement by  *)
(* statement, with SIGWINCH delivered between any two statements. No signal  *)
(* is blocked in the recorder, and pselect is given an empty mask.           *)

\* resize signals delivered in a run
MaxWinch == 2

\* main has opened the session, spawned the child, and is about to call pselect
InitFwd ==
    /\ sess = ap_open(NoSess, TRUE, TRUE, TRUE).s
    /\ rec = [NoRec EXCEPT !.pc = "enter", !.child.state = "running",
                           !.pty_ws = NoSess.winsize, !.queried = {NoSess.winsize}]
    /\ flt = NoFlt
    /\ apcall = NoApCall
    /\ aphist = [NoHist EXCEPT !.opened = TRUE, !.captured = NoSess.termios]
    /\ qs = <<>>
    /\ wr = NoWrite
    /\ heap = EmptyHeap
    /\ b = [x \in Bufs |-> ZeroBuf]
    /\ sl = ZeroBuf
    /\ call = NoCall

\* a statement of main that takes the recorder from one place to another
FwdStep(from, to) ==
    /\ rec.pc = from
    /\ rec' = [rec EXCEPT !.pc = to]
    /\ UNCHANGED <<bufVars, qs, wrVars, apVars, flt>>

\* pselect is called and blocks
FwdPselect == FwdStep("enter", "pselect")

\* a descriptor becomes ready and pselect returns
FwdReady == FwdStep("pselect", "woken")

\* if (ap->resized)
FwdTest ==
    /\ rec.pc = "woken"
    /\ rec' = [rec EXCEPT !.pc = IF sess.aps[sess.global_ap].resized THEN "clear" ELSE "rest"]
    /\ UNCHANGED <<bufVars, qs, wrVars, apVars, flt>>

\* ap->resized = false
FwdClear ==
    /\ rec.pc = "clear"
    /\ rec' = [rec EXCEPT !.pc = "col"]
    /\ sess' = [sess EXCEPT !.aps[sess.global_ap].resized = FALSE]
    /\ UNCHANGED <<bufVars, qs, wrVars, apcall, aphist, flt>>

\* current_ws.ws_col = ap->w
FwdCol ==
    /\ rec.pc = "col"
    /\ rec' = [rec EXCEPT !.pc = "row", !.current_ws.ws_col = sess.aps[sess.global_ap].w]
    /\ UNCHANGED <<bufVars, qs, wrVars, apVars, flt>>

\* current_ws.ws_row = ap->h
FwdRow ==
    /\ rec.pc = "row"
    /\ rec' = [rec EXCEPT !.pc = "xpixel", !.current_ws.ws_row = sess.aps[sess.global_ap].h]
    /\ UNCHANGED <<bufVars, qs, wrVars, apVars, flt>>

\* current_ws.ws_xpixel = ap->xpixel
FwdXpixel ==
    /\ rec.pc = "xpixel"
    /\ rec' = [rec EXCEPT !.pc = "ypixel",
                          !.current_ws.ws_xpixel = sess.aps[sess.global_ap].xpixel]
    /\ UNCHANGED <<bufVars, qs, wrVars, apVars, flt>>

\* current_ws.ws_ypixel = ap->ypixel
FwdYpixel ==
    /\ rec.pc = "ypixel"
    /\ rec' = [rec EXCEPT !.pc = "ioctl",
                          !.current_ws.ws_ypixel = sess.aps[sess.global_ap].ypixel]
    /\ UNCHANGED <<bufVars, qs, wrVars, apVars, flt>>

\* ioctl(fd, TIOCSWINSZ, &current_ws), which succeeds or fails
FwdIoctl ==
    /\ rec.pc = "ioctl"
    /\ \E tiocok \in BOOLEAN :
          rec' = [rec EXCEPT !.pc = "rest",
                             !.fwd = @ \o <<rec.current_ws>>,
                             !.pty_ws = IF tiocok THEN rec.current_ws ELSE @]
    /\ UNCHANGED <<bufVars, qs, wrVars, apVars, flt>>

\* the rest of the iteration: no I/O to do, the child is running
FwdRest == FwdStep("rest", "enter")

\* the window takes another size and SIGWINCH is delivered: handle_winch runs
\* between two statements of main, and a pselect that is waiting returns
\* with EINTR
FwdWinch ==
    /\ rec.winches < MaxWinch
    /\ \E ws \in WinSizes \ {sess.winsize} :
          /\ sess' = handle_winch([sess EXCEPT !.winsize = ws], TRUE)
          /\ rec' = [rec EXCEPT !.winches = @ + 1,
                                !.queried = @ \cup {ws},
                                !.pc = IF @ = "pselect" THEN "woken" ELSE @]
    /\ UNCHANGED <<bufVars, qs, wrVars, apcall, aphist, flt>>

\* the statements of main
FwdMain ==
    \/ FwdPselect
    \/ FwdTest
    \/ FwdClear
    \/ FwdCol
    \/ FwdRow
    \/ FwdXpixel
    \/ FwdYpixel
    \/ FwdIoctl
    \/ FwdRest

NextFwd ==
    \/ FwdMain
    \/ FwdReady
    \/ FwdWinch

SpecFwd == InitFwd /\ [][NextFwd]_vars

\* main runs on as long as it is not blocked in pselect; nothing makes a
\* descriptor ready or the window change
SpecFwdLive == SpecFwd /\ WF_vars(FwdMain)

\* the cached size of the session
CachedSize ==
    LET ap == sess.aps[sess.global_ap]
    IN [ws_row |-> ap.h, ws_col |-> ap.w, ws_xpixel |-> ap.xpixel, ws_ypixel |-> ap.ypixel]

\* C33: resize forwarding is live: whenever a resize signal has set the dirty
\* flag, the cached size is eventually given to the pseudo-terminal, also when
\* no descriptor becomes ready again and wherever in the loop the signal
\* arrived.
C33_ResizeForwarded ==
    (rec.winches > 0 /\ sess.aps[sess.global_ap].resized) ~>
        (rec.fwd # <<>> /\ rec.fwd[Len(rec.fwd)] = CachedSize
                        /\ ~sess.aps[sess.global_ap].resized)

\* C39: every size given to the pseudo-terminal is the result of one query of
\* the terminal's size, never fields of two queries mixed.
C39_ForwardedSizeNotTorn ==
    \A i \in DOMAIN rec.fwd : rec.fwd[i] \in rec.queried


-----------------------------------------------------------------------------
(* The slice scenario: a buffer, a slice of its bytes, and the growing
   operations applied to the slice *)

\* sl is a slice of the bytes b["dest"] holds now: the result of slice_buf on the
\* buffer as it is, not yet grown and not left behind by a move of the parent
IsSliceOfDest ==
    /\ sl.cap = 0
    /\ sl.data # NULL
    /\ b["dest"].data # NULL
    /\ ValidRange(heap, b["dest"].data, b["dest"].cap)
    /\ sl.data.blk = b["dest"].data.blk
    /\ sl.data.off >= 0
    /\ sl.data.off + sl.size <= b["dest"].size

\* ensure_cap(&sl, n) on a slice of the destination
EnsureCapSlice ==
    \E n \in 0..MaxCap : \E mv \in BOOLEAN :
        /\ IsSliceOfDest
        /\ LET r == ensure_cap(heap, sl, n, mv)
           IN /\ sl' = r.buf
              /\ heap' = r.heap
        /\ call' = Called("ensure_cap_slice", "dest", "dest", n, 0, <<>>, 0)
        /\ UNCHANGED <<b, qs, wrVars, apVars, rec, flt>>

\* append_data(&sl, bytes, Len(bytes)) on a slice of the destination
AppendDataSlice ==
    \E bytes \in SeqsUpTo(RdBytes, 1) : \E mv \in BOOLEAN :
        /\ IsSliceOfDest
        /\ LET r == append_data(heap, sl, LitSrc(bytes), Len(bytes), mv)
           IN /\ sl' = r.buf
              /\ heap' = r.heap
        /\ call' = Called("append_data_slice", "dest", "dest", Len(bytes), 0, bytes, 0)
        /\ UNCHANGED <<b, qs, wrVars, apVars, rec, flt>>

\* the destination is made and filled, sliced, and the slice is grown; nothing
\* is done to the destination once a call on the slice has gone to the allocator
NextSlice ==
    \/ /\ ~heap.ub
       /\ sl.cap = 0
       /\ \/ NewBuf("dest")
          \/ AppendByte("dest", InBytes)
          \/ SliceBuf
    \/ EnsureCapSlice
    \/ AppendDataSlice

SpecSlice == InitFree /\ [][NextSlice]_vars

\* the bytes of the destination as the last call found them, and as they are now
\* (an indeterminate value where the storage is no longer there)
ParentBefore == call.prec["dest"]
ParentNow == Content(heap, b["dest"])

\* C40: a growing operation on a non-owning slice (ensure_cap or an append, on
\* the result of slice_buf) never gives the slice's data pointer to the
\* allocator, so that the slice still has a capacity of zero and its data
\* pointer, no block was moved, released or handed an invalid pointer, and the
\* parent's bytes outside the slice's range are as they were
C40_SliceNeverReallocates ==
    call.op \in {"ensure_cap_slice", "append_data_slice"} =>
        /\ ~heap.ub
        /\ sl.cap = 0
        /\ sl.data = call.presl.data
        /\ LiveBlocks(heap) = call.prelive
        /\ ValidRange(heap, b["dest"].data, b["dest"].cap)
        /\ \A i \in 1..b["dest"].size :
              (i <= call.presl.data.off \/ i > call.presl.data.off + call.presl.size)
                  => ParentNow[i] = ParentBefore[i]

====
